---- MODULE Spec2Model ----
(***************************************************************************)
(* Whitespace codec service of 2509-hackz-ichthyo/main.                    *)
(*                                                                         *)
(* A Go string is modelled as a sequence of one-character strings, so that *)
(* every conversion (splitting, trimming, parsing, formatting, percent     *)
(* encoding) is computed character by character as the code computes it.   *)
(* The alphabet is ASCII: one character is one byte and one rune.          *)
(***************************************************************************)
EXTENDS Integers, Sequences, FiniteSets, TLC

VARIABLES
    entry,      \* which operation ran last: "none", "Execute", "decodeHandler", ...
    request,    \* the input handed to that operation: [CommandType, Payload]
    command,    \* the WhitespaceCommand the usecase received (NoCommand if none)
    result,     \* the WhitespaceResult the usecase returned
    err,        \* the error the usecase returned (NoError if nil)
    response,   \* the HTTP response written by decodeHandler (NoResponse if none)
    origin,     \* the encode command whose output was fed back (NoCommand if none)
    executor,   \* the last call of the CommandExecutor or of a domain component
    store,      \* the executions the repository holds, in the order they were saved
    heap,       \* the arrays behind the slices of a Result, of its client, of a call
    object,     \* the domain Result a client has constructed (NoResult if none)
    given,      \* the elements of the slice the client passed to the constructor
    held,       \* the slices the client holds: the one it passed, the ones returned
    returned,   \* what the last call of an accessor of the Result returned
    calls,      \* the concurrent calls of WhitespaceUsecase.Execute, one per goroutine
    turns,      \* game-service: the TURN# items of the room, by turn number
    moves,      \* the invocations of handleMakeMove
    connections,\* the open WebSocket connections and the table websocket-connections
    queue,      \* game-service: the items of the partition WAITING_QUEUE
    rooms,      \* game-service: the rooms createGameRoom has written
    joins,      \* the invocations of handleMatchmaking
    inbox,      \* the messages delivered to the connections
    clock       \* the seconds elapsed

\* the state of the codec service and of the command executor
serviceVars == <<entry, request, command, result, err, response, origin, executor, store>>

\* the state of a domain Result and of the client that uses it
resultVars == <<heap, object, given, held, returned>>

\* the state of the calls and of the handlers that run concurrently
concurrentVars == <<calls, turns, moves, connections, queue, rooms, joins, inbox, clock>>

\* the state of the game handler
gameVars == <<turns, moves>>

\* the state of the matchmaking handler and of the disconnect handler
matchVars == <<connections, queue, rooms, joins, inbox, clock>>

vars == <<entry, request, command, result, err, response, origin, executor, store,
          heap, object, given, held, returned, calls,
          turns, moves, connections, queue, rooms, joins, inbox, clock>>

----------------------------------------------------------------------------
(* Characters *)

SP  == " "
TAB == "\t"
LF  == "\n"
CR  == "\r"

Digits == <<"0", "1", "2", "3", "4", "5", "6", "7", "8", "9">>
HexDigits == <<"0", "1", "2", "3", "4", "5", "6", "7", "8", "9",
               "A", "B", "C", "D", "E", "F">>

\* unicode.IsSpace restricted to the alphabet of the model
IsSpace(c) == c \in {SP, TAB, LF, CR}

IsDigit(c) == \E i \in 1..10 : Digits[i] = c

DigitValue(c) == (CHOOSE i \in 1..10 : Digits[i] = c) - 1

IsHex(c) == \E i \in 1..16 : HexDigits[i] = c \/ c \in {"a", "b", "c", "d", "e", "f"}

EmptyString == <<>>

----------------------------------------------------------------------------
(* Go standard library functions used by the service *)

\* Bind(value, Body) is Body applied to value, with value computed once:
\* a local variable of the code that is assigned once and read many times
Bind(value, Body(_)) == CHOOSE r \in { Body(v) : v \in {value} } : TRUE

RECURSIVE Concat(_)
\* the concatenation of a list of strings (what a strings.Builder accumulates)
Concat(parts) ==
    IF Len(parts) = 0 THEN EmptyString
    ELSE IF Len(parts) = 1 THEN parts[1]
    ELSE LET half == Len(parts) \div 2
         IN  Concat(SubSeq(parts, 1, half)) \o Concat(SubSeq(parts, half + 1, Len(parts)))

\* the indexes of s, in order, whose character satisfies Keep
IndexesWhere(s, Keep(_)) == SelectSeq([i \in 1..Len(s) |-> i], Keep)

RECURSIVE Join(_, _)
\* strings.Join(elems, sep)
Join(elems, sep) ==
    IF Len(elems) = 0 THEN EmptyString
    ELSE IF Len(elems) = 1 THEN elems[1]
    ELSE elems[1] \o sep \o Join(Tail(elems), sep)

\* strings.TrimSpace(s)
TrimSpace(s) ==
    LET kept == IndexesWhere(s, LAMBDA i : ~IsSpace(s[i]))
    IN  IF Len(kept) = 0 THEN EmptyString ELSE SubSeq(s, kept[1], kept[Len(kept)])

\* strings.Fields(s): the maximal runs of characters that are not white space
Fields(s) ==
    LET starts == IndexesWhere(s, LAMBDA i : ~IsSpace(s[i]) /\ (i = 1 \/ IsSpace(s[i - 1])))
        ends   == IndexesWhere(s, LAMBDA i : ~IsSpace(s[i]) /\ (i = Len(s) \/ IsSpace(s[i + 1])))
    IN  [k \in 1..Len(starts) |-> SubSeq(s, starts[k], ends[k])]

\* strings.ReplaceAll(s, "\r\n", "\n")
ReplaceCRLF(s) ==
    Concat([i \in 1..Len(s) |->
               IF s[i] = CR /\ i < Len(s) /\ s[i + 1] = LF THEN EmptyString ELSE <<s[i]>>])

\* a replacement that replaces nothing
ReplaceNothing(s, old, new) == s

\* strings.ReplaceAll(s, old, new) for one-character old and new
ReplaceChar(s, old, new) ==
    Concat([i \in 1..Len(s) |-> <<IF s[i] = old THEN new ELSE s[i]>>])

\* the removal of every white-space character, whatever old is
RemoveAllSpace(s, old) == SelectSeq(s, LAMBDA c : ~IsSpace(c))

\* strings.ReplaceAll(s, old, "") for a one-character old
RemoveChar(s, old) == SelectSeq(s, LAMBDA c : c # old)

\* strings.Split(s, sep) for a one-character sep: the pieces between separators
Split(s, sep) ==
    LET seps == IndexesWhere(s, LAMBDA i : s[i] = sep)
        n    == Len(seps)
    IN  [k \in 1..(n + 1) |->
            SubSeq(s, IF k = 1 THEN 1 ELSE seps[k - 1] + 1,
                      IF k = n + 1 THEN Len(s) ELSE seps[k] - 1)]

\* strings.HasPrefix(s, "   ")
HasPrefix3(s) == Len(s) >= 3 /\ s[1] = SP /\ s[2] = SP /\ s[3] = SP

RECURSIVE DigitsValue(_, _)
DigitsValue(s, acc) ==
    IF Len(s) = 0 THEN acc ELSE DigitsValue(Tail(s), acc * 10 + DigitValue(s[1]))

\* strconv.Atoi with the sign read and then dropped: "-1" becomes 1
AtoiSignDropped(token) ==
    LET signed == Len(token) > 0 /\ token[1] \in {"+", "-"}
        body   == IF signed THEN Tail(token) ELSE token
        okay   == Len(body) > 0 /\ \A i \in 1..Len(body) : IsDigit(body[i])
    IN  IF ~okay THEN [ok |-> FALSE, value |-> 0]
        ELSE [ok |-> TRUE, value |-> DigitsValue(body, 0)]

\* strconv.Atoi(token): an optional sign followed by at least one decimal digit.
\* [ok, value]; tokens of the model are far shorter than the 19 digits that overflow.
Atoi(token) ==
    LET signed == Len(token) > 0 /\ token[1] \in {"+", "-"}
        body   == IF signed THEN Tail(token) ELSE token
        okay   == Len(body) > 0 /\ \A i \in 1..Len(body) : IsDigit(body[i])
    IN  IF ~okay THEN [ok |-> FALSE, value |-> 0]
        ELSE [ok |-> TRUE,
              value |-> IF signed /\ token[1] = "-"
                        THEN 0 - DigitsValue(body, 0) ELSE DigitsValue(body, 0)]

RECURSIVE FormatUint(_)
\* strconv.FormatUint(value, 10)
FormatUint(value) ==
    IF value < 10 THEN <<Digits[value + 1]>>
    ELSE FormatUint(value \div 10) \o <<Digits[(value % 10) + 1]>>

RECURSIVE BinaryDigits(_)
\* the %b verb: binary digits of value without padding
BinaryDigits(value) ==
    IF value < 2 THEN <<Digits[value + 1]>>
    ELSE BinaryDigits(value \div 2) \o <<Digits[(value % 2) + 1]>>

RECURSIVE ZeroPad(_, _)
ZeroPad(s, width) == IF Len(s) >= width THEN s ELSE ZeroPad(<<"0">> \o s, width)

\* the %b verb without the zero padding of %0*b
SprintfBinaryUnpadded(width, value) == BinaryDigits(value)

\* fmt.Sprintf("%0*b", width, value) for value >= 0
SprintfBinary(width, value) == ZeroPad(BinaryDigits(value), width)

RECURSIVE ParseBitsReversed(_, _)
\* the bits read from the right: the value of the mirrored string
ParseBitsReversed(bits, acc) ==
    IF Len(bits) = 0 THEN acc
    ELSE ParseBitsReversed(SubSeq(bits, 1, Len(bits) - 1),
                           acc * 2 + (IF bits[Len(bits)] = "1" THEN 1 ELSE 0))

RECURSIVE ParseBits(_, _)
ParseBits(bits, acc) ==
    IF Len(bits) = 0 THEN acc
    ELSE ParseBits(Tail(bits), acc * 2 + (IF bits[1] = "1" THEN 1 ELSE 0))

\* strconv.ParseUint(bits, 2, 8): [ok, value]
ParseUint2(bits) ==
    LET okay  == Len(bits) > 0 /\ \A i \in 1..Len(bits) : bits[i] \in {"0", "1"}
        value == IF okay THEN ParseBits(bits, 0) ELSE 0
    IN  IF okay /\ value < 256 THEN [ok |-> TRUE, value |-> value]
        ELSE [ok |-> FALSE, value |-> 0]

\* byte value of the characters of the alphabet that url.PathEscape escapes
CharCode(c) ==
    CASE c = TAB -> 9
      [] c = LF  -> 10
      [] c = CR  -> 13
      [] c = SP  -> 32
      [] c = "%" -> 37
      [] OTHER   -> 0

\* url.PathEscape keeps unreserved characters and $ & + = : @ and escapes the rest
ShouldEscape(c) == c \in {SP, TAB, LF, CR, "%"}

\* url.QueryEscape in place of url.PathEscape: a space is written as "+"
QueryEscape(s) ==
    Concat([i \in 1..Len(s) |->
               IF s[i] = SP THEN <<"+">>
               ELSE IF ShouldEscape(s[i])
               THEN <<"%", HexDigits[(CharCode(s[i]) \div 16) + 1], HexDigits[(CharCode(s[i]) % 16) + 1]>>
               ELSE <<s[i]>>])

\* url.PathEscape(s)
PathEscape(s) ==
    Concat([i \in 1..Len(s) |->
               IF ShouldEscape(s[i])
               THEN <<"%", HexDigits[(CharCode(s[i]) \div 16) + 1], HexDigits[(CharCode(s[i]) % 16) + 1]>>
               ELSE <<s[i]>>])

HexValue(c) ==
    IF \E i \in 1..16 : HexDigits[i] = c
    THEN (CHOOSE i \in 1..16 : HexDigits[i] = c) - 1
    ELSE CASE c = "a" -> 10 [] c = "b" -> 11 [] c = "c" -> 12
           [] c = "d" -> 13 [] c = "e" -> 14 [] c = "f" -> 15 [] OTHER -> 0

\* the character of a byte value; bytes outside the alphabet are kept as "?"
CodeChar(n) ==
    CASE n = 9  -> TAB
      [] n = 10 -> LF
      [] n = 13 -> CR
      [] n = 32 -> SP
      [] n = 37 -> "%"
      [] OTHER  -> "?"

\* url.PathUnescape, first pass: every % is followed by two hex digits
UnescapeValid(s) ==
    \A i \in 1..Len(s) :
        s[i] = "%" => i + 2 <= Len(s) /\ IsHex(s[i + 1]) /\ IsHex(s[i + 2])

\* url.PathUnescape, second pass: a % and its two digits become one byte
UnescapeBytes(s) ==
    Concat([i \in 1..Len(s) |->
               IF s[i] = "%" THEN <<CodeChar(HexValue(s[i + 1]) * 16 + HexValue(s[i + 2]))>>
               ELSE IF (i > 1 /\ s[i - 1] = "%") \/ (i > 2 /\ s[i - 2] = "%") THEN EmptyString
               ELSE <<s[i]>>])

\* url.PathUnescape applied a second time to what it decoded
PathUnescapeTwice(s) ==
    IF ~UnescapeValid(s) THEN [ok |-> FALSE, value |-> EmptyString]
    ELSE IF UnescapeValid(UnescapeBytes(s))
    THEN [ok |-> TRUE, value |-> UnescapeBytes(UnescapeBytes(s))]
    ELSE [ok |-> TRUE, value |-> UnescapeBytes(s)]

\* url.PathUnescape(s): [ok, value]
PathUnescape(s) ==
    IF UnescapeValid(s) THEN [ok |-> TRUE, value |-> UnescapeBytes(s)]
    ELSE [ok |-> FALSE, value |-> EmptyString]

----------------------------------------------------------------------------
(* Errors: the sentinel an error wraps (errors.Is) and the text after it *)

\* detail is the token, rune or line the message names, as a string of the model
NoError == [kind |-> "nil", msg |-> "", detail |-> <<>>]

ErrValidationFailed(msg) == [kind |-> "ValidationFailed", msg |-> msg, detail |-> <<>>]
ErrInvalidPayload(msg, detail) == [kind |-> "InvalidPayload", msg |-> msg, detail |-> detail]
ErrInvalidCommandType(raw) == [kind |-> "InvalidCommandType", msg |-> raw, detail |-> <<>>]
ErrTypeMismatch == [kind |-> "TypeMismatch", msg |-> "", detail |-> <<>>]

----------------------------------------------------------------------------
(* domain: command types *)

CommandTypeWhitespaceToDecimal  == "WhitespaceToDecimal"
CommandTypeWhitespaceToBinary   == "WhitespaceToBinary"
CommandTypeDecimalToWhitespace  == "DecimalToWhitespace"
CommandTypeBinariesToWhitespace == "BinariesToWhitespace"

\* The closed set of four command types.  The declaration with four members is
\* not among the source files (the one that is declares three); its members
\* are the ones the usecase, the HTTP layer and TestParseCommandType name.
supportedCommandTypes ==
    { CommandTypeWhitespaceToDecimal, CommandTypeWhitespaceToBinary,
      CommandTypeDecimalToWhitespace, CommandTypeBinariesToWhitespace }

\* a validation that accepts every command type
validateCommandTypeLax(ct) == NoError

\* validateCommandType(ct): the error, NoError if ct is supported
validateCommandType(ct) ==
    IF ct \notin supportedCommandTypes THEN ErrInvalidCommandType(ct) ELSE NoError

\* a parse that accepts every string as a command type
ParseCommandTypeUnchecked(raw) == [ct |-> raw, err |-> NoError]

\* ParseCommandType(raw): [ct, err]
ParseCommandType(raw) ==
    IF validateCommandType(raw) # NoError
    THEN [ct |-> "", err |-> validateCommandType(raw)]
    ELSE [ct |-> raw, err |-> NoError]

\* strings.TrimSpace(commandType) == "" for the command-type strings of the model
IsBlankCommandType(raw) == raw \in {"", " ", "  "}

ResultKindWhitespace      == "Whitespace"
ResultKindDecimalSequence == "DecimalSequence"
ResultKindBinarySequence  == "BinarySequence"

----------------------------------------------------------------------------
(* app: the segment grammar of WhitespaceUsecase *)

\* the widths of the three fields of a sentence
segmentLengths == <<4, 4, 8>>

\* the zero value WhitespaceResult{}
EmptyResult ==
    [ CommandType |-> "", ResultKind |-> "",
      ResultDecimals |-> <<>>, ResultBinaries |-> <<>>,
      ResultWhitespace |-> <<>>, ResultWhitespaceEncoded |-> <<>> ]

RECURSIVE SegmentsOfLines(_, _)
\* the loop of extractSegments over the lines: [segments, err]
SegmentsOfLines(lines, segments) ==
    IF Len(lines) = 0 THEN [segments |-> segments, err |-> NoError]
    ELSE IF Len(lines[1]) = 0 THEN SegmentsOfLines(Tail(lines), segments)
    ELSE IF Len(lines[1]) < 3 \/ ~HasPrefix3(lines[1])
         THEN [segments |-> <<>>, err |-> ErrInvalidPayload("line must start with three spaces", <<>>)]
         ELSE SegmentsOfLines(Tail(lines),
                              Append(segments, SubSeq(lines[1], 4, Len(lines[1]))))

\* the loop over the widths left out: no segment is ever reported
NoBadWidth(segments) == 0

\* the first index whose segment has the wrong width, 0 if there is none
FirstBadWidth(segments) ==
    IF \E i \in 1..Len(segments) : Len(segments[i]) # segmentLengths[i]
    THEN CHOOSE i \in 1..Len(segments) :
            /\ Len(segments[i]) # segmentLengths[i]
            /\ \A j \in 1..(i - 1) : Len(segments[j]) = segmentLengths[j]
    ELSE 0

\* extractSegments(sentence): [segments, err]
extractSegments(sentence) ==
    IF sentence = EmptyString
    THEN [segments |-> <<>>, err |-> ErrInvalidPayload("sentence must not be blank", <<>>)]
    ELSE
    LET normalized == ReplaceChar(ReplaceCRLF(sentence), CR, LF)
        lines      == Split(normalized, LF)
        found      == SegmentsOfLines(lines, <<>>)
    IN  IF found.err # NoError THEN found
        ELSE IF Len(found.segments) # 3
        THEN [segments |-> <<>>, err |-> ErrInvalidPayload("sentence must contain three lines", <<>>)]
        ELSE IF FirstBadWidth(found.segments) # 0
        THEN [segments |-> <<>>,
              err |-> ErrInvalidPayload("line must contain characters",
                         FormatUint(FirstBadWidth(found.segments)) \o <<SP>>
                         \o FormatUint(segmentLengths[FirstBadWidth(found.segments)]))]
        ELSE found

\* the inner loop with the two cases exchanged: a space written as '1'
SegmentBitsSwapped(segment) ==
    IF \E i \in 1..Len(segment) : segment[i] \notin {SP, TAB}
    THEN [bits |-> EmptyString,
          err |-> ErrInvalidPayload("unsupported rune", <<>>)]
    ELSE [bits |-> [i \in 1..Len(segment) |-> IF segment[i] = SP THEN "1" ELSE "0"],
          err |-> NoError]

\* the inner loop of parseWhitespaceSentence over one segment: [bits, err]
SegmentBits(segment) ==
    IF \E i \in 1..Len(segment) : segment[i] \notin {SP, TAB}
    THEN [bits |-> EmptyString,
          err |-> ErrInvalidPayload("unsupported rune",
                    <<segment[CHOOSE i \in 1..Len(segment) :
                                /\ segment[i] \notin {SP, TAB}
                                /\ \A j \in 1..(i - 1) : segment[j] \in {SP, TAB}]>>)]
    ELSE [bits |-> [i \in 1..Len(segment) |-> IF segment[i] = SP THEN "0" ELSE "1"],
          err |-> NoError]

RECURSIVE ParseSegments(_, _, _)
\* the outer loop of parseWhitespaceSentence: [formatted, decimals, err]
ParseSegments(segments, formattedSegments, decimals) ==
    IF Len(segments) = 0
    THEN [formatted |-> Join(formattedSegments, <<SP>>), decimals |-> decimals, err |-> NoError]
    ELSE LET sb == SegmentBits(segments[1])
         IN  IF sb.err # NoError
             THEN [formatted |-> EmptyString, decimals |-> <<>>, err |-> sb.err]
             ELSE IF ~ParseUint2(sb.bits).ok
             THEN [formatted |-> EmptyString, decimals |-> <<>>,
                   err |-> ErrInvalidPayload("invalid binary segment", <<>>)]
             ELSE ParseSegments(Tail(segments),
                                Append(formattedSegments, sb.bits),
                                Append(decimals, FormatUint(ParseUint2(sb.bits).value)))

\* parseWhitespaceSentence(sentence): [formatted, decimals, err]
parseWhitespaceSentence(sentence) ==
    LET extracted == extractSegments(sentence)
    IN  IF extracted.err # NoError
        THEN [formatted |-> EmptyString, decimals |-> <<>>, err |-> extracted.err]
        ELSE ParseSegments(extracted.segments, <<>>, <<>>)

RECURSIVE DecimalTokensToBinary(_, _, _)
\* the loop of decimalStringToBinary over the tokens: [binary, err]
DecimalTokensToBinary(tokens, i, builder) ==
    IF i > Len(tokens) THEN [binary |-> builder, err |-> NoError]
    ELSE LET parsed == Atoi(tokens[i])
         IN  IF ~parsed.ok
             THEN [binary |-> EmptyString,
                   err |-> ErrInvalidPayload("token is not an integer", tokens[i])]
             ELSE IF parsed.value < 0 \/ parsed.value >= 2 ^ segmentLengths[i]
             THEN [binary |-> EmptyString,
                   err |-> ErrInvalidPayload("decimal out of range", tokens[i])]
             ELSE DecimalTokensToBinary(tokens, i + 1,
                      builder \o SprintfBinary(segmentLengths[i], parsed.value))

\* decimalStringToBinary(decimal): [binary, err]
decimalStringToBinary(decimal) ==
    LET tokens == Fields(decimal)
    IN  IF Len(tokens) # 3
        THEN [binary |-> EmptyString,
              err |-> ErrInvalidPayload("decimal must contain three numbers", <<>>)]
        ELSE DecimalTokensToBinary(tokens, 1, EmptyString)

\* normalizeBinaryString(input): [clean, err]
normalizeBinaryString(input) ==
    LET trimmed == TrimSpace(input)
        clean   == RemoveChar(trimmed, SP)
    IN  IF trimmed = EmptyString
        THEN [clean |-> EmptyString, err |-> ErrInvalidPayload("binary must not be blank", <<>>)]
        ELSE IF Len(clean) # 16
        THEN [clean |-> EmptyString, err |-> ErrInvalidPayload("binary must be 16 bits", <<>>)]
        ELSE IF \E i \in 1..16 : clean[i] \notin {"0", "1"}
        THEN [clean |-> EmptyString,
              err |-> ErrInvalidPayload("binary contains invalid rune",
                        <<clean[CHOOSE i \in 1..16 :
                                 /\ clean[i] \notin {"0", "1"}
                                 /\ \A j \in 1..(i - 1) : clean[j] \in {"0", "1"}]>>)]
        ELSE [clean |-> clean, err |-> NoError]

\* SegmentToWhitespace with the two characters exchanged: '0' written as a tab
SegmentToWhitespaceSwapped(segment) ==
    <<SP, SP, SP>> \o [i \in 1..Len(segment) |-> IF segment[i] = "0" THEN TAB ELSE SP] \o <<LF>>

\* one segment of bitsToWhitespace: the prefix, the mapped bits, the line feed
SegmentToWhitespace(segment) ==
    <<SP, SP, SP>> \o [i \in 1..Len(segment) |-> IF segment[i] = "0" THEN SP ELSE TAB] \o <<LF>>

\* bitsToWhitespace(bits): [whitespace, err]
bitsToWhitespace(bits) ==
    IF Len(bits) # 16
    THEN [whitespace |-> EmptyString, err |-> ErrInvalidPayload("binary must be 16 bits", <<>>)]
    ELSE IF \E i \in 1..16 : bits[i] \notin {"0", "1"}
    THEN [whitespace |-> EmptyString,
          err |-> ErrInvalidPayload("binary contains invalid rune",
                    <<bits[CHOOSE i \in 1..16 :
                            /\ bits[i] \notin {"0", "1"}
                            /\ \A j \in 1..(i - 1) : bits[j] \in {"0", "1"}]>>)]
    ELSE [whitespace |-> SegmentToWhitespace(SubSeq(bits, 1, 4))
                         \o SegmentToWhitespace(SubSeq(bits, 5, 8))
                         \o SegmentToWhitespace(SubSeq(bits, 9, 16)),
          err |-> NoError]

----------------------------------------------------------------------------
(* app: WhitespaceUsecase *)

\* the index of the last failing unit, 0 if there is none: a loop that runs on
\* after an error and keeps the latest one
LastError(errs) ==
    IF \E i \in 1..Len(errs) : errs[i] # NoError
    THEN CHOOSE i \in 1..Len(errs) :
            /\ errs[i] # NoError
            /\ \A j \in (i + 1)..Len(errs) : errs[j] = NoError
    ELSE 0

\* The four conversions share one loop shape: the units are converted in payload
\* order and the first error returns at once with the zero result.
\* FirstError(errs) is the index at which that loop returns, 0 if it runs through.
FirstError(errs) ==
    IF \E i \in 1..Len(errs) : errs[i] # NoError
    THEN CHOOSE i \in 1..Len(errs) :
            /\ errs[i] # NoError
            /\ \A j \in 1..(i - 1) : errs[j] = NoError
    ELSE 0

\* WhitespaceUsecase.whitespaceToBinary(payload): [result, err]
whitespaceToBinary(payload) ==
    LET parsed == [i \in 1..Len(payload) |-> parseWhitespaceSentence(payload[i])]
        failed == FirstError([i \in 1..Len(payload) |-> parsed[i].err])
    IN  IF failed # 0 THEN [result |-> EmptyResult, err |-> parsed[failed].err]
        ELSE [result |-> [EmptyResult EXCEPT
                            !.CommandType = CommandTypeWhitespaceToBinary,
                            !.ResultKind = ResultKindBinarySequence,
                            !.ResultBinaries = [i \in 1..Len(payload) |-> parsed[i].formatted]],
              err |-> NoError]

\* WhitespaceUsecase.whitespaceToDecimal(payload): [result, err]
whitespaceToDecimal(payload) ==
    LET parsed == [i \in 1..Len(payload) |-> parseWhitespaceSentence(payload[i])]
        failed == FirstError([i \in 1..Len(payload) |-> parsed[i].err])
    IN  IF failed # 0 THEN [result |-> EmptyResult, err |-> parsed[failed].err]
        ELSE [result |-> [EmptyResult EXCEPT
                            !.CommandType = CommandTypeWhitespaceToDecimal,
                            !.ResultKind = ResultKindDecimalSequence,
                            !.ResultDecimals =
                                [i \in 1..Len(payload) |-> Join(parsed[i].decimals, <<SP>>)]],
              err |-> NoError]

\* one iteration of the loop of decimalToWhitespace: [whitespace, err]
decimalUnitToWhitespace(decimal) ==
    LET binary == decimalStringToBinary(decimal)
    IN  IF binary.err # NoError THEN [whitespace |-> EmptyString, err |-> binary.err]
        ELSE bitsToWhitespace(binary.binary)

\* WhitespaceUsecase.decimalToWhitespace(payload): [result, err]
decimalToWhitespace(payload) ==
    LET converted == [i \in 1..Len(payload) |-> decimalUnitToWhitespace(payload[i])]
        failed    == FirstError([i \in 1..Len(payload) |-> converted[i].err])
    IN  IF failed # 0 THEN [result |-> EmptyResult, err |-> converted[failed].err]
        ELSE [result |-> [EmptyResult EXCEPT
                            !.CommandType = CommandTypeDecimalToWhitespace,
                            !.ResultKind = ResultKindWhitespace,
                            !.ResultWhitespace =
                                [i \in 1..Len(payload) |-> converted[i].whitespace],
                            !.ResultWhitespaceEncoded =
                                [i \in 1..Len(payload) |-> PathEscape(converted[i].whitespace)]],
              err |-> NoError]

\* one iteration of the loop of binaryToWhitespace: [whitespace, err]
binaryUnitToWhitespace(binary) ==
    LET clean == normalizeBinaryString(binary)
    IN  IF clean.err # NoError THEN [whitespace |-> EmptyString, err |-> clean.err]
        ELSE bitsToWhitespace(clean.clean)

\* WhitespaceUsecase.binaryToWhitespace(payload): [result, err]
binaryToWhitespace(payload) ==
    LET converted == [i \in 1..Len(payload) |-> binaryUnitToWhitespace(payload[i])]
        failed    == FirstError([i \in 1..Len(payload) |-> converted[i].err])
    IN  IF failed # 0 THEN [result |-> EmptyResult, err |-> converted[failed].err]
        ELSE [result |-> [EmptyResult EXCEPT
                            !.CommandType = CommandTypeBinariesToWhitespace,
                            !.ResultKind = ResultKindWhitespace,
                            !.ResultWhitespace =
                                [i \in 1..Len(payload) |-> converted[i].whitespace],
                            !.ResultWhitespaceEncoded =
                                [i \in 1..Len(payload) |-> PathEscape(converted[i].whitespace)]],
              err |-> NoError]

\* WhitespaceUsecase.Execute(command): [result, err]
Execute(cmd) ==
    IF IsBlankCommandType(cmd.CommandType)
    THEN [result |-> EmptyResult, err |-> ErrValidationFailed("commandType must not be blank")]
    ELSE IF Len(cmd.Payload) = 0
    THEN [result |-> EmptyResult, err |-> ErrValidationFailed("payload must not be blank")]
    ELSE LET parsed == ParseCommandType(cmd.CommandType)
         IN  IF parsed.err # NoError
             THEN [result |-> EmptyResult, err |-> parsed.err]
             ELSE CASE parsed.ct = CommandTypeWhitespaceToBinary -> whitespaceToBinary(cmd.Payload)
                    [] parsed.ct = CommandTypeWhitespaceToDecimal -> whitespaceToDecimal(cmd.Payload)
                    [] parsed.ct = CommandTypeDecimalToWhitespace -> decimalToWhitespace(cmd.Payload)
                    [] parsed.ct = CommandTypeBinariesToWhitespace -> binaryToWhitespace(cmd.Payload)
                    [] OTHER -> [result |-> EmptyResult, err |-> ErrTypeMismatch]

----------------------------------------------------------------------------
(* httpserver: POST /v1/decode *)

StatusOK                  == 200
StatusBadRequest          == 400
StatusInternalServerError == 500

\* one iteration of the loop of normalizePayload: [value, err]
normalizeValue(ct, value) ==
    IF ct \in {CommandTypeWhitespaceToBinary, CommandTypeWhitespaceToDecimal}
    THEN (IF ~PathUnescape(value).ok
          THEN [value |-> EmptyString,
                err |-> ErrInvalidPayload("failed to decode percent-encoded payload", <<>>)]
          ELSE [value |-> PathUnescape(value).value, err |-> NoError])
    ELSE IF ct \in {CommandTypeDecimalToWhitespace, CommandTypeBinariesToWhitespace}
    THEN [value |-> TrimSpace(value), err |-> NoError]
    ELSE [value |-> value, err |-> NoError]

\* the loop of normalizePayload: [values, err]
normalizeValues(ct, values) ==
    LET each   == [i \in 1..Len(values) |-> normalizeValue(ct, values[i])]
        failed == FirstError([i \in 1..Len(values) |-> each[i].err])
    IN  IF failed # 0 THEN [values |-> <<>>, err |-> each[failed].err]
        ELSE [values |-> [i \in 1..Len(values) |-> each[i].value], err |-> NoError]

\* normalizePayload(commandType, values): [values, err]
normalizePayload(commandType, values) ==
    LET parsed == ParseCommandType(commandType)
    IN  IF parsed.err # NoError THEN [values |-> <<>>, err |-> parsed.err]
        ELSE LET normalized == normalizeValues(parsed.ct, values)
             IN  IF normalized.err # NoError THEN normalized
                 ELSE IF Len(normalized.values) = 0
                 THEN [values |-> <<>>, err |-> ErrValidationFailed("payload must not be empty")]
                 ELSE normalized

\* a *string field of decodeResponse: nil or a value
NilString == [present |-> FALSE, value |-> EmptyString]

\* the body of a response that carries no result
NoBody ==
    [ CommandType |-> "", ResultKind |-> "",
      ResultDecimals |-> <<>>, ResultBinaries |-> <<>>,
      DecimalString |-> NilString, BinaryString |-> NilString,
      ResultWhitespace |-> <<>>, ResultWhitespaceEncoded |-> <<>> ]

\* newDecodeResponse with the convenience strings taken from the first element
newDecodeResponseFirstUnit(res) ==
    [ CommandType |-> res.CommandType, ResultKind |-> res.ResultKind,
      ResultDecimals |-> res.ResultDecimals, ResultBinaries |-> res.ResultBinaries,
      DecimalString |-> IF Len(res.ResultDecimals) > 0
                        THEN [present |-> TRUE, value |-> res.ResultDecimals[1]]
                        ELSE NilString,
      BinaryString |-> IF Len(res.ResultBinaries) > 0
                       THEN [present |-> TRUE, value |-> res.ResultBinaries[1]]
                       ELSE NilString,
      ResultWhitespace |-> res.ResultWhitespace,
      ResultWhitespaceEncoded |-> res.ResultWhitespaceEncoded ]

\* newDecodeResponse(result)
newDecodeResponse(res) ==
    [ CommandType |-> res.CommandType, ResultKind |-> res.ResultKind,
      ResultDecimals |-> res.ResultDecimals, ResultBinaries |-> res.ResultBinaries,
      DecimalString |-> IF Len(res.ResultDecimals) > 0
                        THEN [present |-> TRUE, value |-> Join(res.ResultDecimals, <<SP>>)]
                        ELSE NilString,
      BinaryString |-> IF Len(res.ResultBinaries) > 0
                       THEN [present |-> TRUE, value |-> Join(res.ResultBinaries, <<SP>>)]
                       ELSE NilString,
      ResultWhitespace |-> res.ResultWhitespace,
      ResultWhitespaceEncoded |-> res.ResultWhitespaceEncoded ]

NoResponse == [status |-> 0, error |-> "", details |-> NoError, body |-> NoBody]

\* writeError(c, status, message, err)
writeError(status, message, e) ==
    [status |-> status, error |-> message, details |-> e, body |-> NoBody]

\* handleUsecaseError with every error answered as the first case answers
handleUsecaseErrorFirstCase(e) == writeError(StatusBadRequest, "invalid input", e)

\* handleUsecaseError(c, err)
handleUsecaseError(e) ==
    CASE e.kind = "ValidationFailed"   -> writeError(StatusBadRequest, "invalid input", e)
      [] e.kind = "InvalidPayload"     -> writeError(StatusBadRequest, "invalid payload", e)
      [] e.kind = "InvalidCommandType" -> writeError(StatusBadRequest, "unsupported command type", e)
      [] e.kind = "TypeMismatch"       -> writeError(StatusBadRequest, "command and component do not match", e)
      [] OTHER -> writeError(StatusInternalServerError, "internal error", e)

NoCommand == [called |-> FALSE, CommandType |-> "", Payload |-> <<>>]

\* decodeHandler(uc) on a bound request, for a usecase whose Execute is
\* UcExecute: what the usecase received and returned, and the response written
decodeHandlerOf(UcExecute(_), req) ==
    Bind(normalizePayload(req.CommandType, req.Payload), LAMBDA payload :
        IF payload.err # NoError
        THEN [command |-> NoCommand, result |-> EmptyResult, err |-> NoError,
              response |-> writeError(StatusBadRequest, "invalid payload", payload.err)]
        ELSE
        Bind([called |-> TRUE, CommandType |-> req.CommandType, Payload |-> payload.values],
             LAMBDA cmd :
        Bind(UcExecute(cmd), LAMBDA out :
            IF out.err # NoError
            THEN [command |-> cmd, result |-> out.result, err |-> out.err,
                  response |-> handleUsecaseError(out.err)]
            ELSE [command |-> cmd, result |-> out.result, err |-> NoError,
                  response |-> [status |-> StatusOK, error |-> "", details |-> NoError,
                                body |-> newDecodeResponse(out.result)]])))

\* decodeHandler(uc) for the WhitespaceUsecase of the service
decodeHandler(req) == decodeHandlerOf(Execute, req)

----------------------------------------------------------------------------
(* domain: Command, Result, Decoder and Encoder *)

\* the zero value Command{}
ZeroCommand == [commandType |-> "", payload |-> EmptyString]

\* NewCommand(commandType, payload): [cmd, err]
NewCommand(commandType, payload) ==
    IF validateCommandType(commandType) # NoError
    THEN [cmd |-> ZeroCommand, err |-> validateCommandType(commandType)]
    ELSE [cmd |-> [commandType |-> commandType, payload |-> payload], err |-> NoError]

\* the zero value Result{}
ZeroResult == [kind |-> "", text |-> EmptyString, decimals |-> <<>>, binaries |-> <<>>]

NewWhitespaceResult(text) == [ZeroResult EXCEPT !.kind = ResultKindWhitespace, !.text = text]

NewDecimalResult(decimals) ==
    [ZeroResult EXCEPT !.kind = ResultKindDecimalSequence, !.decimals = decimals]

NewBinarySequenceResult(binaries) ==
    [ZeroResult EXCEPT !.kind = ResultKindBinarySequence, !.binaries = binaries]

\* the map of the encoder from decimals to whitespace characters
decimalsToWhitespace == (9 :> TAB) @@ (10 :> LF) @@ (32 :> SP)

\* the map of the decoder from whitespace characters to decimals
whitespaceToDecimals == (TAB :> 9) @@ (LF :> 10) @@ (SP :> 32)

\* the %d verb
FormatInt(value) ==
    IF value < 0 THEN <<"-">> \o FormatUint(0 - value) ELSE FormatUint(value)

\* one iteration of the loop of whitespaceEncoder.Execute: [whitespace, err]
EncodeToken(token) ==
    IF ~Atoi(token).ok
    THEN [whitespace |-> SP, err |-> ErrInvalidPayload("token is not an integer", token)]
    ELSE IF Atoi(token).value \notin DOMAIN decimalsToWhitespace
    THEN [whitespace |-> SP,
          err |-> ErrInvalidPayload("unsupported decimal", FormatInt(Atoi(token).value))]
    ELSE [whitespace |-> decimalsToWhitespace[Atoi(token).value], err |-> NoError]

\* whitespaceEncoder.Execute(cmd): [result, err]
whitespaceEncoderExecute(cmd) ==
    IF cmd.commandType # CommandTypeDecimalToWhitespace
    THEN [result |-> ZeroResult, err |-> ErrTypeMismatch]
    ELSE IF TrimSpace(cmd.payload) = EmptyString
    THEN [result |-> ZeroResult,
          err |-> ErrInvalidPayload("payload must contain at least one decimal", <<>>)]
    ELSE Bind(Fields(TrimSpace(cmd.payload)), LAMBDA tokens :
         Bind([i \in 1..Len(tokens) |-> EncodeToken(tokens[i])], LAMBDA encoded :
         Bind(FirstError([i \in 1..Len(tokens) |-> encoded[i].err]), LAMBDA failed :
            IF failed # 0 THEN [result |-> ZeroResult, err |-> encoded[failed].err]
            ELSE [result |-> NewWhitespaceResult(
                                [i \in 1..Len(tokens) |-> encoded[i].whitespace]),
                  err |-> NoError])))

\* decodeWhitespaceToDecimal(payload): [result, err]
decodeWhitespaceToDecimal(payload) ==
    IF payload = EmptyString
    THEN [result |-> ZeroResult, err |-> ErrInvalidPayload("payload must not be empty", <<>>)]
    ELSE IF \E i \in 1..Len(payload) : payload[i] \notin DOMAIN whitespaceToDecimals
    THEN [result |-> ZeroResult,
          err |-> ErrInvalidPayload("unsupported rune",
                    <<payload[CHOOSE i \in 1..Len(payload) :
                                /\ payload[i] \notin DOMAIN whitespaceToDecimals
                                /\ \A j \in 1..(i - 1) :
                                      payload[j] \in DOMAIN whitespaceToDecimals]>>)]
    ELSE [result |-> NewDecimalResult(
                        [i \in 1..Len(payload) |-> whitespaceToDecimals[payload[i]]]),
          err |-> NoError]

\* strings.TrimSuffix(line, "\r"), which is also the dropCR of bufio.ScanLines
TrimSuffixCR(line) ==
    IF Len(line) > 0 /\ line[Len(line)] = CR THEN SubSeq(line, 1, Len(line) - 1) ELSE line

\* the tokens of bufio.Scanner with bufio.ScanLines: the pieces between line
\* feeds, each without one trailing carriage return; an empty last piece is
\* no line
ScanLines(text) ==
    Bind(Split(text, LF), LAMBDA pieces :
        LET count == IF Len(pieces[Len(pieces)]) = 0 THEN Len(pieces) - 1 ELSE Len(pieces)
        IN  [k \in 1..count |-> TrimSuffixCR(pieces[k])])

\* convertSentence(line): [binary, err]
convertSentence(line) ==
    Bind(TrimSuffixCR(line), LAMBDA trimmed :
        IF Len(trimmed) < 3 + 4
        THEN [binary |-> EmptyString, err |-> ErrInvalidPayload("sentence is too short", <<>>)]
        ELSE IF \E i \in 1..3 : trimmed[i] # SP
        THEN [binary |-> EmptyString,
              err |-> ErrInvalidPayload("sentence must start with three spaces", <<>>)]
        ELSE IF Len(trimmed) - 3 \notin {4, 8}
        THEN [binary |-> EmptyString,
              err |-> ErrInvalidPayload("sentence must contain 4 or 8 whitespace characters", <<>>)]
        ELSE IF \E i \in 4..Len(trimmed) : trimmed[i] \notin {SP, TAB}
        THEN [binary |-> EmptyString,
              err |-> ErrInvalidPayload("unsupported rune",
                        <<trimmed[CHOOSE i \in 4..Len(trimmed) :
                                    /\ trimmed[i] \notin {SP, TAB}
                                    /\ \A j \in 4..(i - 1) : trimmed[j] \in {SP, TAB}]>>)]
        ELSE [binary |-> [i \in 1..(Len(trimmed) - 3) |->
                             IF trimmed[i + 3] = SP THEN "0" ELSE "1"],
              err |-> NoError])

\* decodeWhitespaceToBinary(payload): [result, err]
decodeWhitespaceToBinary(payload) ==
    IF payload = EmptyString
    THEN [result |-> ZeroResult, err |-> ErrInvalidPayload("payload must not be empty", <<>>)]
    ELSE IF ~PathUnescape(payload).ok
    THEN [result |-> ZeroResult, err |-> ErrInvalidPayload("invalid URL escape", <<>>)]
    ELSE Bind(ScanLines(PathUnescape(payload).value), LAMBDA lines :
         Bind([k \in 1..Len(lines) |-> convertSentence(lines[k])], LAMBDA converted :
         Bind(FirstError([k \in 1..Len(lines) |->
                            IF k > 64 THEN ErrInvalidPayload("too many sentences", <<>>)
                            ELSE converted[k].err]), LAMBDA failed :
            IF failed > 64
            THEN [result |-> ZeroResult, err |-> ErrInvalidPayload("too many sentences", <<>>)]
            ELSE IF failed # 0 THEN [result |-> ZeroResult, err |-> converted[failed].err]
            ELSE IF Len(lines) = 0
            THEN [result |-> ZeroResult,
                  err |-> ErrInvalidPayload("payload must contain at least one sentence", <<>>)]
            ELSE [result |-> NewBinarySequenceResult(
                                [k \in 1..Len(lines) |-> converted[k].binary]),
                  err |-> NoError])))

\* whitespaceDecoder.Execute(cmd): [result, err]
whitespaceDecoderExecute(cmd) ==
    CASE cmd.commandType = CommandTypeWhitespaceToDecimal -> decodeWhitespaceToDecimal(cmd.payload)
      [] cmd.commandType = CommandTypeWhitespaceToBinary -> decodeWhitespaceToBinary(cmd.payload)
      [] OTHER -> [result |-> ZeroResult, err |-> ErrTypeMismatch]

----------------------------------------------------------------------------
(* domain: a Result with its slices on a heap of arrays.  A slice is the    *)
(* address of its array: two slices of one address share their elements.    *)

\* the nil slice
NilSlice == 0

\* the zero value Result{}, which is also the state before any construction
NoResult == [kind |-> "", text |-> EmptyString, decimals |-> NilSlice, binaries |-> NilSlice]

\* the elements of a slice
Elements(h, slice) == IF slice = NilSlice THEN <<>> ELSE h[slice]

\* the slice itself in place of a copy of it
CloneAliased(h, slice) == [heap |-> h, slice |-> slice]

\* clone := make([]T, len(s)); copy(clone, s): [heap, slice]
Clone(h, slice) == [heap |-> Append(h, Elements(h, slice)), slice |-> Len(h) + 1]

\* NewWhitespaceResult(text) on heap h: [heap, result]
NewWhitespaceResultIn(h, text) ==
    [heap |-> h, result |-> [NoResult EXCEPT !.kind = ResultKindWhitespace, !.text = text]]

\* NewDecimalResult(decimals) on heap h: [heap, result]
NewDecimalResultIn(h, decimals) ==
    [heap |-> Clone(h, decimals).heap,
     result |-> [NoResult EXCEPT !.kind = ResultKindDecimalSequence,
                                 !.decimals = Clone(h, decimals).slice]]

\* NewBinarySequenceResult(binaries) on heap h: [heap, result]
NewBinarySequenceResultIn(h, binaries) ==
    [heap |-> Clone(h, binaries).heap,
     result |-> [NoResult EXCEPT !.kind = ResultKindBinarySequence,
                                 !.binaries = Clone(h, binaries).slice]]

\* Result.Kind()
Kind(r) == r.kind

\* Result.Text() with the check of the kind left out
TextUnguarded(r) == [value |-> r.text, ok |-> TRUE]

\* Result.Text(): [value, ok]
Text(r) ==
    IF r.kind # ResultKindWhitespace THEN [value |-> EmptyString, ok |-> FALSE]
    ELSE [value |-> r.text, ok |-> TRUE]

\* Result.Decimals() on heap h: [heap, slice, ok]
Decimals(h, r) ==
    IF r.kind # ResultKindDecimalSequence THEN [heap |-> h, slice |-> NilSlice, ok |-> FALSE]
    ELSE [heap |-> Clone(h, r.decimals).heap, slice |-> Clone(h, r.decimals).slice, ok |-> TRUE]

\* Result.Binaries() on heap h: [heap, slice, ok]
Binaries(h, r) ==
    IF r.kind # ResultKindBinarySequence THEN [heap |-> h, slice |-> NilSlice, ok |-> FALSE]
    ELSE [heap |-> Clone(h, r.binaries).heap, slice |-> Clone(h, r.binaries).slice, ok |-> TRUE]

\* Result.DecimalString(separator) on heap h: [value, ok]; strconv.Itoa writes
\* what the %d verb writes
DecimalString(h, r, separator) ==
    IF ~Decimals(h, r).ok THEN [value |-> EmptyString, ok |-> FALSE]
    ELSE Bind(Elements(Decimals(h, r).heap, Decimals(h, r).slice), LAMBDA decimals :
            IF Len(decimals) = 0 THEN [value |-> EmptyString, ok |-> TRUE]
            ELSE [value |-> Join([i \in 1..Len(decimals) |-> FormatInt(decimals[i])], separator),
                  ok |-> TRUE])

\* Result.BinaryString(separator) on heap h: [value, ok]
BinaryString(h, r, separator) ==
    IF ~Binaries(h, r).ok THEN [value |-> EmptyString, ok |-> FALSE]
    ELSE Bind(Elements(Binaries(h, r).heap, Binaries(h, r).slice), LAMBDA binaries :
            IF Len(binaries) = 0 THEN [value |-> EmptyString, ok |-> TRUE]
            ELSE [value |-> Join(binaries, separator), ok |-> TRUE])

\* no accessor has been called
NoReturn ==
    [call |-> "none", arg |-> EmptyString, ok |-> FALSE, value |-> <<>>,
     slice |-> NilSlice, seen |-> {}]

----------------------------------------------------------------------------

(* usecases: CommandExecutor *)

\* validateExecuteInput(input): the error, NoError if the input is accepted
validateExecuteInput(input) ==
    IF IsBlankCommandType(input.CommandType)
    THEN ErrValidationFailed("commandType must not be blank")
    ELSE IF input.Payload = EmptyString
    THEN ErrValidationFailed("payload must not be blank")
    ELSE NoError

\* CommandExecutor.dispatch(cmd): [component, result, err]; component is the
\* domain component whose Execute was called, "none" if neither was
dispatch(cmd) ==
    CASE cmd.commandType = CommandTypeDecimalToWhitespace ->
            [component |-> "encoder"] @@ whitespaceEncoderExecute(cmd)
      [] cmd.commandType \in {CommandTypeWhitespaceToDecimal, CommandTypeWhitespaceToBinary} ->
            [component |-> "decoder"] @@ whitespaceDecoderExecute(cmd)
      [] OTHER -> [component |-> "none", result |-> ZeroResult, err |-> ErrTypeMismatch]

\* the zero value CommandExecution{}; ID 0 is the empty identifier
ZeroExecution ==
    [ ID |-> 0, CommandType |-> "", Payload |-> EmptyString, ResultKind |-> "",
      ResultText |-> NilString, ResultDecimals |-> <<>>, ResultBinaries |-> <<>> ]

\* convertResultToExecution(id, cmd, result, now); the time stamp is left out
convertResultToExecution(id, cmd, res) ==
    [ ID |-> id, CommandType |-> cmd.commandType, Payload |-> cmd.payload,
      ResultKind |-> res.kind,
      ResultText |-> IF res.kind = ResultKindWhitespace
                     THEN [present |-> TRUE, value |-> res.text] ELSE NilString,
      ResultDecimals |-> IF res.kind = ResultKindDecimalSequence THEN res.decimals ELSE <<>>,
      ResultBinaries |-> IF res.kind = ResultKindBinarySequence THEN res.binaries ELSE <<>> ]

\* a rejection that saves the zero execution all the same
RejectedButSaved(saved, component, e) ==
    [component |-> component, result |-> ZeroResult, err |-> e,
     execution |-> ZeroExecution, store |-> Append(saved, ZeroExecution)]

\* the outcome of a call that the executor rejects before or at dispatch
Rejected(saved, component, e) ==
    [component |-> component, result |-> ZeroResult, err |-> e,
     execution |-> ZeroExecution, store |-> saved]

\* CommandExecutor.ExecuteCommand(ctx, input) on a repository holding saved:
\* [component, result, err, execution, store].  Identifiers are fresh: the
\* model numbers the executions in the order they are saved.
ExecuteCommand(input, saved) ==
    IF validateExecuteInput(input) # NoError
    THEN Rejected(saved, "none", validateExecuteInput(input))
    ELSE IF ParseCommandType(input.CommandType).err # NoError
    THEN Rejected(saved, "none", ParseCommandType(input.CommandType).err)
    ELSE
    Bind(NewCommand(ParseCommandType(input.CommandType).ct, input.Payload), LAMBDA built :
        IF built.err # NoError THEN Rejected(saved, "none", built.err)
        ELSE
        Bind(dispatch(built.cmd), LAMBDA done :
            IF done.err # NoError THEN Rejected(saved, done.component, done.err)
            ELSE
            Bind(convertResultToExecution(Len(saved) + 1, built.cmd, done.result),
                 LAMBDA execution :
                [component |-> done.component, result |-> done.result, err |-> NoError,
                 execution |-> execution, store |-> Append(saved, execution)])))

----------------------------------------------------------------------------
(* Inputs.  These builders state the formats in their own terms; they use   *)
(* none of the operators above that model the service.                      *)

MaxPayload == 2          \* longest payload of the sampled requests
SentenceCeiling == 64    \* "1 to 64 sentences"

Prefix == <<SP, SP, SP>>

\* bit i (from the left) of value written with width bits
BitAt(value, width, i) == (value \div (2 ^ (width - i))) % 2

BitsOf(value, width)  == [i \in 1..width |-> IF BitAt(value, width, i) = 1 THEN "1" ELSE "0"]
FieldOf(value, width) == [i \in 1..width |-> IF BitAt(value, width, i) = 1 THEN TAB ELSE SP]

\* canonical decimal of a value below 1000
DecimalOf(value) ==
    IF value < 10 THEN <<Digits[value + 1]>>
    ELSE IF value < 100 THEN <<Digits[(value \div 10) + 1], Digits[(value % 10) + 1]>>
    ELSE <<Digits[(value \div 100) + 1], Digits[((value \div 10) % 10) + 1], Digits[(value % 10) + 1]>>

\* the sentence of a triple of field values, each line ended by term
SentenceOf(t, term) ==
    Prefix \o FieldOf(t[1], 4) \o term \o Prefix \o FieldOf(t[2], 4) \o term
           \o Prefix \o FieldOf(t[3], 8) \o term

Bits16Of(t)      == BitsOf(t[1], 4) \o BitsOf(t[2], 4) \o BitsOf(t[3], 8)
GroupedBitsOf(t) == BitsOf(t[1], 4) \o <<SP>> \o BitsOf(t[2], 4) \o <<SP>> \o BitsOf(t[3], 8)
DecimalsOf(t)    == DecimalOf(t[1]) \o <<SP>> \o DecimalOf(t[2]) \o <<SP>> \o DecimalOf(t[3])

\* the percent-encoded form of a whitespace text
PercentOf(s) ==
    LET code(c) == CASE c = SP  -> <<"%", "2", "0">>
                     [] c = TAB -> <<"%", "0", "9">>
                     [] c = LF  -> <<"%", "0", "A">>
                     [] c = CR  -> <<"%", "0", "D">>
                     [] c = "%" -> <<"%", "2", "5">>
                     [] OTHER   -> <<c>>
    IN  Concat([i \in 1..Len(s) |-> code(s[i])])

\* The triples of the round trips: every pair of 4-bit values with the third
\* field at its ends, middle and the example value, and every 8-bit value with
\* three pairs of 4-bit values.
RoundTripTriples ==
    ((0..15) \X (0..15) \X {0, 1, 127, 128, 210, 255})
    \cup { <<p[1], p[2], c>> : p \in {<<0, 0>>, <<11, 6>>, <<15, 15>>}, c \in 0..255 }

SampleTriples == { <<11, 6, 210>>, <<0, 0, 0>>, <<15, 15, 255>> }

Terminators == { <<LF>>, <<CR>>, <<CR, LF>> }

ValidSentences ==
    { SentenceOf(t, <<LF>>) : t \in SampleTriples }
    \cup { SentenceOf(<<11, 6, 210>>, term) : term \in Terminators }

InvalidSentences ==
    { EmptyString,
      <<"a", "b", "c">>,
      Prefix \o FieldOf(1, 4) \o <<LF>> \o Prefix \o FieldOf(2, 4),
      Prefix \o FieldOf(1, 4) \o <<LF>> \o Prefix \o FieldOf(2, 4) \o <<LF>> \o Prefix \o FieldOf(3, 7),
      Prefix \o FieldOf(1, 4) \o <<LF>> \o Prefix \o FieldOf(2, 3) \o <<"x", "y", LF>> \o Prefix \o FieldOf(3, 8),
      Prefix \o <<SP, "a", TAB, SP, LF>> \o Prefix \o FieldOf(2, 4) \o <<LF>> \o Prefix \o FieldOf(3, 8) \o <<LF>>,
      Prefix \o FieldOf(1, 4) \o <<LF>> \o Prefix \o FieldOf(2, 4) \o <<LF>> \o Prefix \o <<TAB, TAB, "0", "1", SP, SP, SP, SP, LF>>,
      SentenceOf(<<1, 2, 3>>, <<LF>>) \o SentenceOf(<<4, 5, 6>>, <<LF>>) }

PercentSentences ==
    { PercentOf(SentenceOf(<<11, 6, 210>>, <<LF>>)),
      PercentOf(SentenceOf(<<0, 0, 0>>, <<CR, LF>>)),
      <<"%", "Z", "Z">>,
      Prefix \o <<"%", "2">> }

SentenceUnits == ValidSentences \cup InvalidSentences \cup PercentSentences

DecimalUnits ==
    { DecimalsOf(t) : t \in SampleTriples }
    \cup { <<"4", "6", "8", "0", "2">>,
           <<"1", SP, "2">>,
           <<"a", SP, "b", SP, "c">>,
           <<"-", "1", SP, "0", SP, "0">>,
           <<"1", "6", SP, "0", SP, "0">>,
           <<"0", SP, "0", SP, "2", "5", "6">>,
           <<SP, "1", SP, SP, "2", TAB, "3", LF>>,
           <<"+", "1", SP, "0", "2", SP, "0", "0", "3">>,
           EmptyString }

BinaryUnits ==
    { Bits16Of(t) : t \in SampleTriples }
    \cup { GroupedBitsOf(<<11, 6, 210>>),
           <<SP>> \o GroupedBitsOf(<<0, 0, 0>>) \o <<LF>>,
           <<"1", "0", "1", "0">>,
           BitsOf(0, 15) \o <<"2">>,
           EmptyString }

OtherUnits ==
    { <<"d", "u", "m", "m", "y">>, EmptyString,
      SentenceOf(<<11, 6, 210>>, <<LF>>), DecimalsOf(<<11, 6, 210>>) }

\* the payloads of at most MaxPayload strings drawn from units
PayloadsOver(units) == UNION { [1..n -> units] : n \in 0..MaxPayload }

\* n copies of one string
Repeat(unit, n) == [i \in 1..n |-> unit]

DecodeTypes == { CommandTypeWhitespaceToBinary, CommandTypeWhitespaceToDecimal }
EncodeTypes == { CommandTypeDecimalToWhitespace, CommandTypeBinariesToWhitespace }
OtherTypes  == { "Unknown", "", "  " }

UnitsFor(ct) ==
    CASE ct \in DecodeTypes -> SentenceUnits
      [] ct = CommandTypeDecimalToWhitespace -> DecimalUnits
      [] ct = CommandTypeBinariesToWhitespace -> BinaryUnits
      [] OTHER -> OtherUnits

NewRequest(ct, payload) == [CommandType |-> ct, Payload |-> payload]

\* the sampled requests: every command type with short payloads of units of its
\* direction, and the decode directions with SentenceCeiling and one more sentences
Requests ==
    { NewRequest(tp[1], tp[2]) :
        tp \in UNION { {ct} \X PayloadsOver(UnitsFor(ct)) :
                        ct \in DecodeTypes \cup EncodeTypes \cup OtherTypes } }
    \cup { NewRequest(ct, Repeat(SentenceOf(<<11, 6, 210>>, <<LF>>), n)) :
             ct \in DecodeTypes, n \in {SentenceCeiling, SentenceCeiling + 1} }

\* the round-trip triples, as a one-string payload of each encode direction
RoundTripRequests ==
    { NewRequest(CommandTypeBinariesToWhitespace, <<Bits16Of(t)>>) : t \in RoundTripTriples }
    \cup { NewRequest(CommandTypeDecimalToWhitespace, <<DecimalsOf(t)>>) : t \in RoundTripTriples }

\* a token of a decimal string with the integer it spells; int is FALSE for a
\* token that spells no integer
Token(text, int, value) == [text |-> text, int |-> int, value |-> value]

\* tokens at and around the ends of the ranges of the three fields, with a
\* sign, with leading zeros, and tokens that are no integers
DecimalTokens ==
    { Token(<<"0">>, TRUE, 0), Token(<<"1", "5">>, TRUE, 15), Token(<<"1", "6">>, TRUE, 16),
      Token(<<"2", "5", "5">>, TRUE, 255), Token(<<"2", "5", "6">>, TRUE, 256),
      Token(<<"-", "1">>, TRUE, 0 - 1), Token(<<"+", "7">>, TRUE, 7),
      Token(<<"0", "0", "7">>, TRUE, 7),
      Token(<<"a">>, FALSE, 0), Token(<<"1", ".", "5">>, FALSE, 0) }

\* a decimal string with the tokens it was written from: every triple of
\* DecimalTokens separated by single spaces, triples laid out with other white
\* space, and strings of zero, one, two and four tokens
DecimalCases ==
    { [unit |-> a.text \o <<SP>> \o b.text \o <<SP>> \o c.text, tokens |-> <<a, b, c>>] :
        a \in DecimalTokens, b \in DecimalTokens, c \in DecimalTokens }
    \cup { [unit |-> pad \o DecimalOf(t[1]) \o sep \o DecimalOf(t[2]) \o sep \o DecimalOf(t[3]) \o pad,
            tokens |-> <<Token(DecimalOf(t[1]), TRUE, t[1]), Token(DecimalOf(t[2]), TRUE, t[2]),
                         Token(DecimalOf(t[3]), TRUE, t[3])>>] :
             t \in SampleTriples, sep \in {<<TAB>>, <<LF>>, <<SP, SP>>, <<CR, LF>>},
             pad \in {EmptyString, <<SP>>, <<TAB, LF>>} }
    \cup { [unit |-> EmptyString, tokens |-> <<>>],
           [unit |-> <<SP, TAB>>, tokens |-> <<>>],
           [unit |-> <<"7">>, tokens |-> <<Token(<<"7">>, TRUE, 7)>>],
           [unit |-> <<"4", "6", "8", "0", "2">>,
            tokens |-> <<Token(<<"4", "6", "8", "0", "2">>, TRUE, 46802)>>],
           [unit |-> <<"1", SP, "2">>,
            tokens |-> <<Token(<<"1">>, TRUE, 1), Token(<<"2">>, TRUE, 2)>>],
           [unit |-> <<"1", SP, "2", SP, "3", SP, "4">>,
            tokens |-> <<Token(<<"1">>, TRUE, 1), Token(<<"2">>, TRUE, 2),
                         Token(<<"3">>, TRUE, 3), Token(<<"4">>, TRUE, 4)>>] }

\* the characters of the sampled binary strings without their white space:
\* 16 bits, one bit less and one more, and 16 characters with one that is no bit
BinaryCores ==
    { Bits16Of(t) : t \in SampleTriples }
    \cup { BitsOf(0, 15), BitsOf(1, 17), BitsOf(0, 15) \o <<"2">>,
           BitsOf(5, 7) \o <<"a">> \o BitsOf(5, 8) }

\* a binary string with the characters (core) and the separator it was written
\* from: the core cut after its 4th and 8th character by sep, between two pads;
\* and the short strings, which have no separator
BinaryCases ==
    { [unit |-> pad \o SubSeq(core, 1, 4) \o sep \o SubSeq(core, 5, 8) \o sep
                    \o SubSeq(core, 9, Len(core)) \o pad,
       core |-> core, sep |-> sep] :
        core \in BinaryCores,
        sep \in {EmptyString, <<SP>>, <<SP, SP>>, <<TAB>>, <<LF>>},
        pad \in {EmptyString, <<SP>>, <<TAB, LF>>} }
    \cup { [unit |-> pad \o core \o pad, core |-> core, sep |-> EmptyString] :
             core \in {EmptyString, <<"1", "0", "1", "0">>},
             pad \in {EmptyString, <<SP>>, <<TAB, LF>>} }

\* a field of width characters, spaces and tabs in turn; if marked, its first
\* character is one that is neither a space nor a tab
MarkedField(width, marked) ==
    [i \in 1..width |-> IF marked /\ i = 1 THEN "x" ELSE IF i % 2 = 0 THEN TAB ELSE SP]

\* a sentence of three lines with the widths of its fields and the field that
\* holds an unsupported character (0 if none does): every field one short, exact
\* and one long
WidthCases ==
    { [unit |-> Prefix \o MarkedField(w[1], bad = 1) \o <<LF>>
                \o Prefix \o MarkedField(w[2], bad = 2) \o <<LF>>
                \o Prefix \o MarkedField(w[3], bad = 3) \o <<LF>>,
       widths |-> w, bad |-> bad] :
        w \in {3, 4, 5} \X {3, 4, 5} \X {7, 8, 9}, bad \in 0..3 }

\* a string with the percent-encoded string a client sends for it: valid and
\* invalid sentences, strings that hold a percent sign themselves (the encoded
\* form of such a string is encoded twice), and an encoding in lower-case
\* hexadecimal digits
PercentCases ==
    { [raw |-> s, encoded |-> PercentOf(s)] :
        s \in { SentenceOf(t, <<LF>>) : t \in SampleTriples }
              \cup { SentenceOf(<<11, 6, 210>>, <<CR, LF>>),
                     <<"a", "b", "c">>,
                     Prefix \o FieldOf(1, 4) \o <<LF>> \o Prefix \o FieldOf(2, 4)
                            \o <<LF>> \o Prefix \o FieldOf(3, 7),
                     PercentOf(SentenceOf(<<0, 0, 0>>, <<LF>>)),
                     <<"1", "0", "0", "%">> } }
    \cup { [raw |-> <<SP, SP, SP, TAB, LF>>,
            encoded |-> <<SP, "%", "2", "0", SP, "%", "0", "9", "%", "0", "a">>] }

\* strings with a percent sign that opens no two hexadecimal digits
MalformedPercent ==
    { <<"%", "Z", "Z">>, Prefix \o <<"%", "2">>, <<"%">>, <<"%", "2", "G">>,
      PercentOf(SentenceOf(<<0, 0, 0>>, <<LF>>)) \o <<"%">> }

\* a string of an encode direction, between leading and trailing white space
TrimCases ==
    { [unit |-> lead \o inner \o trail, inner |-> inner] :
        lead \in {EmptyString, <<SP>>, <<TAB, LF>>},
        trail \in {EmptyString, <<SP, SP>>, <<CR, LF>>},
        inner \in { DecimalsOf(<<11, 6, 210>>), GroupedBitsOf(<<11, 6, 210>>),
                    <<"1", TAB, "2", LF, "3">>, <<"%", "2", "0">>, <<"a", SP, SP, "b">> } }

\* a valid sentence with the triple it spells, each of its three lines ended
\* by a line feed, a carriage return or both, in every combination
TerminatorCases ==
    { [unit |-> Prefix \o FieldOf(t[1], 4) \o e[1] \o Prefix \o FieldOf(t[2], 4) \o e[2]
                \o Prefix \o FieldOf(t[3], 8) \o e[3],
       triple |-> t] :
        t \in SampleTriples \cup {<<5, 10, 129>>},
        e \in Terminators \X Terminators \X Terminators }

\* the errors a stub of the usecase returns: each sentinel bare and wrapped,
\* and errors that are none of them
StubErrors ==
    { ErrValidationFailed(""), ErrValidationFailed("payload must not be blank"),
      ErrInvalidPayload("", <<>>), ErrInvalidPayload("bits error", <<>>),
      ErrInvalidCommandType(""), ErrInvalidCommandType("Custom"),
      ErrTypeMismatch,
      [kind |-> "TypeMismatch", msg |-> "wrapped", detail |-> <<>>],
      [kind |-> "other", msg |-> "boom", detail |-> <<>>],
      [kind |-> "context.Canceled", msg |-> "", detail |-> <<>>] }

\* one request per sampled string of the payload grammars
GrammarRequests ==
    { NewRequest(CommandTypeDecimalToWhitespace, <<c.unit>>) : c \in DecimalCases }
    \cup { NewRequest(CommandTypeBinariesToWhitespace, <<c.unit>>) : c \in BinaryCases }
    \cup { NewRequest(ct, <<c.unit>>) : ct \in DecodeTypes, c \in WidthCases }
    \cup { NewRequest(ct, <<u>>) :
             ct \in DecodeTypes,
             u \in { c.encoded : c \in PercentCases } \cup { c.raw : c \in PercentCases }
                   \cup MalformedPercent }
    \cup { NewRequest(ct, <<c.unit>>) : ct \in EncodeTypes, c \in TrimCases }
    \cup { NewRequest(ct, <<c.unit>>) : ct \in DecodeTypes, c \in TerminatorCases }

MaxArrays == 4           \* most arrays on the heap of a Result and its client

\* the arguments of the constructors and of the string helpers in the tests
Texts          == { EmptyString, <<SP, TAB>> }
DecimalArrays  == { <<>>, <<32>>, <<1, 2, 3>> }
BinaryArrays   == { <<>>, << <<"0", "1", "0", "1">>, <<"1", "0", "1", "0">> >> }
Separators     == { <<SP>>, <<",">> }

\* the element a client writes into a slice of decimals, or of binaries
Overwrite(kind) == IF kind = ResultKindDecimalSequence THEN 99 ELSE <<"x">>

\* the lines of the older decoder: a prefix and one field of 4 or 8 characters
LineOf(v, width) == Prefix \o FieldOf(v, width)

\* n lines, each ended by a line feed
LinesOf(n) == [k \in 1..(n * 8) |-> IF k % 8 = 0 THEN LF ELSE IF k % 8 = 5 THEN TAB ELSE SP]

ExecutorPayloads ==
    { EmptyString,
      <<"9", SP, "1", "0", SP, "3", "2">>,
      <<"9">>,
      <<SP, "3", "2", SP>>,
      <<"6", "5">>,
      <<"-", "9">>,
      <<"9", SP, "a">>,
      <<SP, SP>>,
      <<SP, TAB, LF>>,
      <<TAB>>,
      <<SP, "a", TAB>>,
      LineOf(11, 4),
      LineOf(210, 8),
      LineOf(11, 4) \o <<CR, LF>> \o LineOf(210, 8) \o <<LF>>,
      SentenceOf(<<11, 6, 210>>, <<LF>>),
      PercentOf(SentenceOf(<<0, 0, 0>>, <<LF>>)),
      <<"%", "Z", "Z">>,
      Prefix \o <<TAB>>,
      Prefix \o FieldOf(5, 5),
      <<TAB>> \o Prefix \o FieldOf(5, 4),
      Prefix \o <<TAB, "x", SP, TAB>>,
      LinesOf(SentenceCeiling),
      LinesOf(SentenceCeiling + 1) }

ExecutorInputs ==
    { NewRequest(ct, p) : ct \in DecodeTypes \cup EncodeTypes \cup OtherTypes,
                          p \in ExecutorPayloads }

----------------------------------------------------------------------------
(* app: WhitespaceUsecase.Execute as the steps of one goroutine.  The slices *)
(* of a call are arrays on the heap; a step converts one payload string.    *)

Goroutines == 2    \* concurrent calls of Execute

\* one array in place of a fresh one: every call gets the first array
MakeShared(h, n) ==
    [heap |-> IF h = <<>> THEN <<[k \in 1..n |-> EmptyString]>> ELSE h, slice |-> 1]

\* make([]string, n) on heap h: [heap, slice]
Make(h, n) == [heap |-> Append(h, [k \in 1..n |-> EmptyString]), slice |-> Len(h) + 1]

\* a goroutine that has not called Execute
IdleCall ==
    [pc |-> "idle", command |-> NoCommand, i |-> 0, primary |-> NilSlice,
     encoded |-> NilSlice, result |-> EmptyResult, err |-> NoError]

NoCalls == [c \in 1..Goroutines |-> IdleCall]

\* the checks of Execute before its switch: the error it returns, NoError if none
ExecuteGuard(cmd) ==
    IF IsBlankCommandType(cmd.CommandType)
    THEN ErrValidationFailed("commandType must not be blank")
    ELSE IF Len(cmd.Payload) = 0
    THEN ErrValidationFailed("payload must not be blank")
    ELSE ParseCommandType(cmd.CommandType).err

\* the body of the loop of the conversion of ct on one payload string:
\* [value, encoded, err]
LoopBody(ct, unit) ==
    CASE ct = CommandTypeWhitespaceToBinary ->
            Bind(parseWhitespaceSentence(unit), LAMBDA parsed :
                [value |-> parsed.formatted, encoded |-> EmptyString, err |-> parsed.err])
      [] ct = CommandTypeWhitespaceToDecimal ->
            Bind(parseWhitespaceSentence(unit), LAMBDA parsed :
                [value |-> Join(parsed.decimals, <<SP>>), encoded |-> EmptyString,
                 err |-> parsed.err])
      [] ct = CommandTypeDecimalToWhitespace ->
            Bind(decimalUnitToWhitespace(unit), LAMBDA converted :
                [value |-> converted.whitespace,
                 encoded |-> PathEscape(converted.whitespace), err |-> converted.err])
      [] ct = CommandTypeBinariesToWhitespace ->
            Bind(binaryUnitToWhitespace(unit), LAMBDA converted :
                [value |-> converted.whitespace,
                 encoded |-> PathEscape(converted.whitespace), err |-> converted.err])

\* the WhitespaceResult a returned call holds, its slices read from heap h
ReturnedResult(h, call) ==
    IF call.err # NoError THEN EmptyResult
    ELSE CASE call.command.CommandType = CommandTypeWhitespaceToBinary ->
                [EmptyResult EXCEPT !.CommandType = CommandTypeWhitespaceToBinary,
                                    !.ResultKind = ResultKindBinarySequence,
                                    !.ResultBinaries = Elements(h, call.primary)]
           [] call.command.CommandType = CommandTypeWhitespaceToDecimal ->
                [EmptyResult EXCEPT !.CommandType = CommandTypeWhitespaceToDecimal,
                                    !.ResultKind = ResultKindDecimalSequence,
                                    !.ResultDecimals = Elements(h, call.primary)]
           [] OTHER ->
                [EmptyResult EXCEPT !.CommandType = call.command.CommandType,
                                    !.ResultKind = ResultKindWhitespace,
                                    !.ResultWhitespace = Elements(h, call.primary),
                                    !.ResultWhitespaceEncoded = Elements(h, call.encoded)]

----------------------------------------------------------------------------
(* game_handler: the room of a game, its TURN# items and handleMakeMove.    *)
(* An invocation is split at its DynamoDB calls; each call is one step.     *)

Handlers  == 2     \* concurrent invocations of a Lambda handler
FullBoard == 64    \* "64 moves = full board"
MaxTurn   == 66    \* highest turn number at which a sequential request is received
RaceTurn  == 2     \* highest turn number at which a concurrent request is received

\* the METADATA item of the room, as createGameRoom wrote it
Room == [RoomId |-> "room_1", Player1Id |-> "alice", Player2Id |-> "bob"]

\* the zero value GameState{}
NoGameState ==
    [RoomId |-> "", TurnNumber |-> 0, CurrentPlayer |-> "", NextColor |-> 0,
     GamePhase |-> "", Winner |-> ""]

\* the colours the model draws: one of the range of each player
ColorSamples == {7, 200}

\* generateNextColorForPlayer(isPlayer1): the colours it may return
generateNextColorForPlayer(isPlayer1) == IF isPlayer1 THEN 0..128 ELSE 129..255

\* the table without a TURN# item of the room
NoTurns == [n \in {} |-> NoGameState]

\* dynamo.Query of getCurrentGameState: the items with the highest sort key, at most one
QueryLatestTurn(items) ==
    { n \in DOMAIN items : \A m \in DOMAIN items : m <= n }

\* the highest turn number stored, -1 if none is
LatestTurn(items) == IF DOMAIN items = {} THEN -1 ELSE CHOOSE n \in QueryLatestTurn(items) : TRUE

\* saveGameState: PutItem under the key TURN#<TurnNumber>.  An item carries the
\* state and the number of times its key was put.
saveGameState(items, gameState) ==
    [n \in DOMAIN items \cup {gameState.TurnNumber} |->
        IF n = gameState.TurnNumber
        THEN [state |-> gameState,
              puts |-> IF n \in DOMAIN items THEN items[n].puts + 1 ELSE 1]
        ELSE items[n]]

\* createInitialGameState: the state it saves and returns
InitialGameState(color) ==
    [NoGameState EXCEPT !.RoomId = Room.RoomId, !.CurrentPlayer = Room.Player1Id,
                        !.NextColor = color, !.GamePhase = "PLAYING"]

\* a rejection that comes only when it is the turn of neither player
TurnCheckLax(current, req) ==
    IF current.CurrentPlayer \in {Room.Player1Id, Room.Player2Id} THEN StatusOK
    ELSE StatusBadRequest

\* handleMakeMove, "Validate turn": 400 if it is not the turn of the sender
TurnCheck(current, req) ==
    IF current.CurrentPlayer # req.UserId THEN StatusBadRequest ELSE StatusOK

\* handleMakeMove, the position check: 400 outside the 8 x 8 board
PositionCheck(req) ==
    IF req.Row < 0 \/ req.Row >= 8 \/ req.Col < 0 \/ req.Col >= 8
    THEN StatusBadRequest ELSE StatusOK

\* handleMakeMove, "Determine next player"
NextPlayer(current) ==
    IF current.CurrentPlayer = Room.Player1Id THEN Room.Player2Id ELSE Room.Player1Id

\* handleMakeMove, "Check if game is finished"
GamePhaseOf(current) == IF current.TurnNumber >= FullBoard THEN "FINISHED" ELSE "PLAYING"

\* handleMakeMove, "Create new simplified game state"
NewGameState(current, req, color) ==
    [RoomId |-> req.RoomId, TurnNumber |-> current.TurnNumber + 1,
     CurrentPlayer |-> NextPlayer(current), NextColor |-> color,
     GamePhase |-> GamePhaseOf(current), Winner |-> ""]

\* the piecePlaced message of a move
PiecePlaced(current, new, req) ==
    [Type |-> "piecePlaced", UserId |-> req.UserId, Row |-> req.Row, Col |-> req.Col,
     Color |-> current.NextColor, NextPlayer |-> new.CurrentPlayer,
     NextColor |-> new.NextColor, GamePhase |-> new.GamePhase, Winner |-> new.Winner]

NoMessage == [Type |-> ""]

NoMoveRequest == [Action |-> "", UserId |-> "", RoomId |-> "", Row |-> 0, Col |-> 0]

\* an invocation slot of handleMakeMove that is free.  stored holds the turn
\* numbers the invocation has put, sent the message it has broadcast.
IdleMove ==
    [pc |-> "idle", req |-> NoMoveRequest, current |-> NoGameState, new |-> NoGameState,
     created |-> FALSE, stored |-> {}, sent |-> NoMessage, status |-> 0]

NoMoves == [p \in 1..Handlers |-> IdleMove]

\* the makeMove requests of the clients
MoveRequests ==
    { [Action |-> "makeMove", UserId |-> u, RoomId |-> Room.RoomId, Row |-> pos[1], Col |-> pos[2]] :
        u \in {"alice", "bob", "carol"}, pos \in {<<3, 4>>, <<8, 0>>, <<0, -1>>} }
    \cup { [Action |-> "makeMove", UserId |-> "", RoomId |-> Room.RoomId, Row |-> 0, Col |-> 0],
           [Action |-> "makeMove", UserId |-> "alice", RoomId |-> "", Row |-> 0, Col |-> 0] }

----------------------------------------------------------------------------
(* matchmaking_handler and disconnect_handler: the WebSocket connections,   *)
(* the waiting queue and the rooms.  An invocation of handleMatchmaking is  *)
(* split at the DynamoDB calls on the waiting queue.                        *)

MaxConnections == 3    \* WebSocket connections opened
MaxClock       == 2    \* seconds at which an entry is added to the waiting queue
MaxRooms       == 2    \* rooms created

Users == <<"alice", "bob", "carol">>

\* the user whose client opened connection k
Owner(k) == Users[((k - 1) % Len(Users)) + 1]

\* no connection was opened: last is the identifier of the latest connection,
\* open the connections that are open, table the table websocket-connections,
\* left the connections of waiting players for which handleDisconnect has run
NoConnections == [last |-> 0, open |-> {}, table |-> {}, left |-> {}]

\* an item of the waiting queue that is none
NoItem == [SK |-> <<0, "">>, userId |-> "", connectionId |-> 0]

\* the sort key "<timestamp>#<userId>" of addToWaitingQueue
SortKey(timestamp, userId) == <<timestamp, userId>>

\* the order of the sort keys: by timestamp, then by user
SortsBefore(a, b) ==
    \/ a[1] < b[1]
    \/ /\ a[1] = b[1]
       /\ \E i, j \in 1..Len(Users) : Users[i] = a[2] /\ Users[j] = b[2] /\ i <= j

\* dynamo.Query of findWaitingPlayer, oldest first, Limit 1: the items returned
QueryOldest(items) == { i \in items : \A j \in items : SortsBefore(i.SK, j.SK) }

\* dynamo.DeleteItem of findWaitingPlayer: unconditional, by key
DeleteItem(items, sk) == { i \in items : i.SK # sk }

\* addToWaitingQueue: PutItem under the sort key of the second and the user
addToWaitingQueue(items, timestamp, userId, connectionId) ==
    DeleteItem(items, SortKey(timestamp, userId))
    \cup { [SK |-> SortKey(timestamp, userId), userId |-> userId,
            connectionId |-> connectionId] }

\* createGameRoom: the METADATA item and the PLAYER# items of the room; the
\* item of player 2 is put last under the key PLAYER#<userId>.  waitingSK is
\* the sort key of the queue item the room was made from.
createGameRoom(roomId, player1Id, player2Id, player1ConnId, player2ConnId, sk) ==
    [roomId |-> roomId, status |-> "WAITING", playerCount |-> 2,
     player1Id |-> player1Id, player2Id |-> player2Id,
     players |-> [u \in {player1Id, player2Id} |->
                    IF u = player2Id
                    THEN [playerRole |-> "PLAYER2", connectionId |-> player2ConnId]
                    ELSE [playerRole |-> "PLAYER1", connectionId |-> player1ConnId]],
     waitingSK |-> sk]

\* the matchFound messages of a match, to the waiting player and to the joiner
MatchFound(roomId, waitingPlayer, userId, connectionId) ==
    { [to |-> waitingPlayer.connectionId, Type |-> "matchFound", RoomId |-> roomId,
       Role |-> "PLAYER1", OpponentId |-> userId],
      [to |-> connectionId, Type |-> "matchFound", RoomId |-> roomId,
       Role |-> "PLAYER2", OpponentId |-> waitingPlayer.userId] }

\* the waiting message to a joiner who found nobody
Waiting(connectionId) ==
    { [to |-> connectionId, Type |-> "waiting", RoomId |-> 0, Role |-> "", OpponentId |-> ""] }

\* sendMessage: PostToConnection delivers to an open connection only
Delivered(messages, open) == { m \in messages : m.to \in open }

\* an invocation slot of handleMatchmaking that is free.  gone holds the
\* connections of waiting players that handleDisconnect had handled when the
\* invocation began.
IdleJoin ==
    [pc |-> "idle", userId |-> "", connectionId |-> 0, found |-> NoItem,
     gone |-> {}, status |-> 0]

NoJoins == [p \in 1..Handlers |-> IdleJoin]

----------------------------------------------------------------------------
(* The service as a state machine: one request is received, then handled by *)
(* the usecase or by the HTTP handler; a client may send the whitespace it  *)
(* got back as the payload of a decode request.                             *)

TypeOK ==
    /\ entry \in {"none", "Execute", "decodeHandler", "decodeHandler(stub)",
                  "ExecuteCommand", "Decoder", "Encoder",
                  "ParseCommandType", "NewCommand"}
    /\ request.CommandType \in STRING

\* no call of the executor or of a domain component has been made
NoCall ==
    [component |-> "none", result |-> ZeroResult, err |-> NoError, execution |-> ZeroExecution]

Received(req) ==
    /\ entry = "none"
    /\ request = req
    /\ command = NoCommand
    /\ result = EmptyResult
    /\ err = NoError
    /\ response = NoResponse
    /\ executor = NoCall
    /\ store = <<>>
    /\ heap = <<>>
    /\ object = NoResult
    /\ given = <<>>
    /\ held = <<>>
    /\ returned = NoReturn
    /\ calls = NoCalls
    /\ turns = NoTurns
    /\ moves = NoMoves
    /\ connections = NoConnections
    /\ queue = {}
    /\ rooms = <<>>
    /\ joins = NoJoins
    /\ inbox = {}
    /\ clock = 0

Init == \E req \in Requests : Received(req) /\ origin = NoCommand

\* a direct call of WhitespaceUsecase.Execute with the received request
ExecuteRequest ==
    /\ entry = "none"
    /\ entry' = "Execute"
    /\ command' = request @@ [called |-> TRUE]
    /\ \E out \in {Execute(request)} :
          /\ result' = out.result
          /\ err' = out.err
    /\ UNCHANGED <<request, response, origin, executor, store>>
    /\ UNCHANGED <<resultVars, concurrentVars>>

\* POST /v1/decode with the received request as its body
HandleDecode ==
    /\ entry = "none"
    /\ entry' = "decodeHandler"
    /\ \E out \in {decodeHandler(request)} :
          /\ command' = out.command
          /\ result' = out.result
          /\ err' = out.err
          /\ response' = out.response
    /\ UNCHANGED <<request, origin, executor, store>>
    /\ UNCHANGED <<resultVars, concurrentVars>>

\* the client sends the whitespace of a successful encode request back, as the
\* payload of a decode request
FeedBack(ct) ==
    /\ entry = "Execute"
    /\ origin = NoCommand
    /\ err = NoError
    /\ result.ResultKind = ResultKindWhitespace
    /\ origin' = command
    /\ entry' = "none"
    /\ request' = NewRequest(ct, result.ResultWhitespace)
    /\ command' = NoCommand
    /\ result' = EmptyResult
    /\ err' = NoError
    /\ response' = NoResponse
    /\ UNCHANGED <<executor, store>>
    /\ UNCHANGED <<resultVars, concurrentVars>>

Next ==
    \/ ExecuteRequest
    \/ HandleDecode
    \/ \E ct \in DecodeTypes : FeedBack(ct)

Spec == Init /\ [][Next]_vars

\* the round trips over RoundTripTriples
InitRoundTrip == \E req \in RoundTripRequests : Received(req) /\ origin = NoCommand

FeedBackSame ==
    \/ /\ command.CommandType = CommandTypeBinariesToWhitespace
       /\ FeedBack(CommandTypeWhitespaceToBinary)
    \/ /\ command.CommandType = CommandTypeDecimalToWhitespace
       /\ FeedBack(CommandTypeWhitespaceToDecimal)

NextRoundTrip == ExecuteRequest \/ FeedBackSame

SpecRoundTrip == InitRoundTrip /\ [][NextRoundTrip]_vars

----------------------------------------------------------------------------
(* The command executor as a state machine: one input is received, then     *)
(* handled by CommandExecutor.ExecuteCommand, or handed as a Command to the  *)
(* decoder or to the encoder directly, as the tests of the domain do.        *)

InitExecutor == \E input \in ExecutorInputs : Received(input) /\ origin = NoCommand

\* CommandExecutor.ExecuteCommand with the received input
CallExecuteCommand ==
    /\ entry = "none"
    /\ entry' = "ExecuteCommand"
    /\ \E out \in {ExecuteCommand(request, store)} :
          /\ executor' = [component |-> out.component, result |-> out.result,
                          err |-> out.err, execution |-> out.execution]
          /\ store' = out.store
    /\ UNCHANGED <<request, command, result, err, response, origin>>
    /\ UNCHANGED <<resultVars, concurrentVars>>

\* Decoder.Execute on the command built from the received input
CallDecoder ==
    /\ entry = "none"
    /\ NewCommand(request.CommandType, request.Payload).err = NoError
    /\ entry' = "Decoder"
    /\ \E out \in {whitespaceDecoderExecute(NewCommand(request.CommandType, request.Payload).cmd)} :
          executor' = [component |-> "decoder", result |-> out.result,
                       err |-> out.err, execution |-> ZeroExecution]
    /\ UNCHANGED <<request, command, result, err, response, origin, store>>
    /\ UNCHANGED <<resultVars, concurrentVars>>

\* Encoder.Execute on the command built from the received input
CallEncoder ==
    /\ entry = "none"
    /\ NewCommand(request.CommandType, request.Payload).err = NoError
    /\ entry' = "Encoder"
    /\ \E out \in {whitespaceEncoderExecute(NewCommand(request.CommandType, request.Payload).cmd)} :
          executor' = [component |-> "encoder", result |-> out.result,
                       err |-> out.err, execution |-> ZeroExecution]
    /\ UNCHANGED <<request, command, result, err, response, origin, store>>
    /\ UNCHANGED <<resultVars, concurrentVars>>

NextExecutor == CallExecuteCommand \/ CallDecoder \/ CallEncoder

SpecExecutor == InitExecutor /\ [][NextExecutor]_vars

----------------------------------------------------------------------------
(* The history of the command executor as a state machine: a client makes   *)
(* one call after another on one executor and one repository, or parses a   *)
(* command type or builds a Command as the tests of the domain do.          *)

MaxSaved == 2    \* executions in the repository when the last call is made

\* the command-type strings a client sends: the four names, and strings that
\* differ from a name in case, in padding or in one word
CommandTypeCandidates ==
    DecodeTypes \cup EncodeTypes \cup OtherTypes
    \cup { "invalid", "whitespacetodecimal", "WHITESPACETOBINARY",
           " WhitespaceToDecimal", "DecimalToWhitespace ", "BinaryToWhitespace",
           "BinariesToWhitespaces", "WhitespaceToDecimal,WhitespaceToBinary" }

HistoryPayloads ==
    { EmptyString, <<"9", SP, "1", "0", SP, "3", "2">>, <<SP, TAB, LF>>,
      LineOf(11, 4), <<"9", SP, "a">> }

HistoryInputs == { NewRequest(ct, p) : ct \in CommandTypeCandidates, p \in HistoryPayloads }

InitHistory == \E input \in HistoryInputs : Received(input) /\ origin = NoCommand

\* domain.ParseCommandType on the command type of the received input
CallParseCommandType ==
    /\ entry = "none"
    /\ entry' = "ParseCommandType"
    /\ \E out \in {ParseCommandType(request.CommandType)} :
          executor' = [NoCall EXCEPT !.component = "ParseCommandType", !.err = out.err]
                      @@ [ct |-> out.ct]
    /\ UNCHANGED <<request, command, result, err, response, origin, store>>
    /\ UNCHANGED <<resultVars, concurrentVars>>

\* domain.NewCommand on the received input, its command type converted unparsed
CallNewCommand ==
    /\ entry = "none"
    /\ entry' = "NewCommand"
    /\ \E out \in {NewCommand(request.CommandType, request.Payload)} :
          executor' = [NoCall EXCEPT !.component = "NewCommand", !.err = out.err]
                      @@ [cmd |-> out.cmd]
    /\ UNCHANGED <<request, command, result, err, response, origin, store>>
    /\ UNCHANGED <<resultVars, concurrentVars>>

\* the client comes back with another input for the same executor
NextCall(input) ==
    /\ entry # "none"
    /\ Len(store) <= MaxSaved
    /\ entry' = "none"
    /\ request' = input
    /\ UNCHANGED <<command, result, err, response, origin, executor, store>>
    /\ UNCHANGED <<resultVars, concurrentVars>>

NextHistory ==
    \/ CallExecuteCommand
    \/ CallParseCommandType
    \/ CallNewCommand
    \/ \E input \in HistoryInputs : NextCall(input)

SpecHistory == InitHistory /\ [][NextHistory]_vars

----------------------------------------------------------------------------
(* Concurrent calls of WhitespaceUsecase.Execute as a state machine: every  *)
(* goroutine makes one call, and the steps of the calls interleave.         *)

\* the commands of the concurrent calls
ConcurrentCommands ==
    { NewRequest(CommandTypeWhitespaceToBinary,
                 <<SentenceOf(<<11, 6, 210>>, <<LF>>), SentenceOf(<<0, 15, 255>>, <<LF>>)>>),
      NewRequest(CommandTypeWhitespaceToDecimal, <<SentenceOf(<<1, 2, 3>>, <<LF>>)>>),
      NewRequest(CommandTypeWhitespaceToDecimal,
                 <<SentenceOf(<<11, 6, 210>>, <<LF>>), <<"a", "b", "c">>>>),
      NewRequest(CommandTypeDecimalToWhitespace,
                 <<DecimalsOf(<<11, 6, 210>>), DecimalsOf(<<0, 0, 0>>)>>),
      NewRequest(CommandTypeDecimalToWhitespace, <<<<"1", "6", SP, "0", SP, "0">>>>),
      NewRequest(CommandTypeBinariesToWhitespace,
                 <<Bits16Of(<<15, 0, 170>>), Bits16Of(<<11, 6, 210>>)>>),
      NewRequest(CommandTypeBinariesToWhitespace, <<Bits16Of(<<1, 2, 3>>)>>),
      NewRequest(CommandTypeWhitespaceToBinary, <<>>),
      NewRequest("Unknown", <<DecimalsOf(<<11, 6, 210>>)>>),
      NewRequest("  ", <<DecimalsOf(<<11, 6, 210>>)>>) }

InitConcurrent == Received(NewRequest("", <<>>)) /\ origin = NoCommand

\* goroutine c calls Execute(ctx, cmd): the checks, then the make of the
\* conversion the switch selects
BeginExecute(c, cmd) ==
    /\ calls[c].pc = "idle"
    /\ IF ExecuteGuard(cmd) # NoError
       THEN /\ calls' = [calls EXCEPT ![c] = [IdleCall EXCEPT !.pc = "returned",
                                                !.command = cmd,
                                                !.err = ExecuteGuard(cmd)]]
            /\ heap' = heap
       ELSE IF cmd.CommandType \in {CommandTypeWhitespaceToBinary, CommandTypeWhitespaceToDecimal}
       THEN \E made \in {Make(heap, Len(cmd.Payload))} :
               /\ heap' = made.heap
               /\ calls' = [calls EXCEPT ![c] = [IdleCall EXCEPT !.pc = "loop",
                                                   !.command = cmd, !.i = 1,
                                                   !.primary = made.slice]]
       ELSE \E whitespaces \in {Make(heap, Len(cmd.Payload))} :
            \E encoded \in {Make(whitespaces.heap, Len(cmd.Payload))} :
               /\ heap' = encoded.heap
               /\ calls' = [calls EXCEPT ![c] = [IdleCall EXCEPT !.pc = "loop",
                                                   !.command = cmd, !.i = 1,
                                                   !.primary = whitespaces.slice,
                                                   !.encoded = encoded.slice]]
    /\ UNCHANGED <<serviceVars, object, given, held, returned, gameVars, matchVars>>

\* one iteration of the loop of goroutine c: an error returns the zero result,
\* a converted string is written into the slices of the call
StepExecute(c) ==
    /\ calls[c].pc = "loop"
    /\ calls[c].i <= Len(calls[c].command.Payload)
    /\ \E out \in {LoopBody(calls[c].command.CommandType,
                            calls[c].command.Payload[calls[c].i])} :
          IF out.err # NoError
          THEN /\ calls' = [calls EXCEPT ![c].pc = "returned", ![c].err = out.err]
               /\ heap' = heap
          ELSE /\ calls' = [calls EXCEPT ![c].i = @ + 1]
               /\ heap' = IF calls[c].encoded = NilSlice
                          THEN [heap EXCEPT ![calls[c].primary][calls[c].i] = out.value]
                          ELSE [heap EXCEPT ![calls[c].primary][calls[c].i] = out.value,
                                            ![calls[c].encoded][calls[c].i] = out.encoded]
    /\ UNCHANGED <<serviceVars, object, given, held, returned, gameVars, matchVars>>

\* the return of goroutine c after its loop: the result refers to its slices
ReturnExecute(c) ==
    /\ calls[c].pc = "loop"
    /\ calls[c].i > Len(calls[c].command.Payload)
    /\ calls' = [calls EXCEPT ![c].pc = "returned"]
    /\ UNCHANGED <<serviceVars, resultVars, gameVars, matchVars>>

NextConcurrent ==
    \/ \E c \in 1..Goroutines, cmd \in ConcurrentCommands : BeginExecute(c, cmd)
    \/ \E c \in 1..Goroutines : StepExecute(c)
    \/ \E c \in 1..Goroutines : ReturnExecute(c)

SpecConcurrent == InitConcurrent /\ [][NextConcurrent]_vars

----------------------------------------------------------------------------
(* The game handler as a state machine: clients of one room send makeMove   *)
(* requests; SpecGame handles them one after another, SpecGameRace lets the  *)
(* steps of concurrent invocations interleave.                              *)

InitGame == Received(NewRequest("", <<>>)) /\ origin = NoCommand

\* no invocation of handleMakeMove is under way
NoMoveInFlight == \A p \in 1..Handlers : moves[p].pc = "idle"

\* handleMakeMove, after the current state is known: the turn check, the
\* position check, then the new state the invocation is about to save
Validated(move, current, color) ==
    IF TurnCheck(current, move.req) # StatusOK \/ PositionCheck(move.req) # StatusOK
    THEN [move EXCEPT !.pc = "done", !.current = current, !.status = StatusBadRequest]
    ELSE [move EXCEPT !.pc = "saveGameState", !.current = current,
                      !.new = NewGameState(current, move.req, color)]

\* the colours drawn for the player who moves after current
NextColors(current) ==
    generateNextColorForPlayer(NextPlayer(current) = Room.Player1Id) \cap ColorSamples

\* handleMakeMove receives req: 400 without a userId or a roomId
ReceiveMakeMove(p, req) ==
    /\ moves[p].pc = "idle"
    /\ moves' = [moves EXCEPT ![p] =
                    IF req.UserId = "" \/ req.RoomId = ""
                    THEN [IdleMove EXCEPT !.pc = "done", !.req = req,
                                          !.status = StatusBadRequest]
                    ELSE [IdleMove EXCEPT !.pc = "getCurrentGameState", !.req = req]]
    /\ UNCHANGED <<turns, serviceVars, resultVars, calls, matchVars>>

\* getCurrentGameState: the Query for the latest TURN# item.  Without an item
\* the invocation goes on to create the initial state.
QueryGameState(p) ==
    /\ moves[p].pc = "getCurrentGameState"
    /\ IF QueryLatestTurn(turns) = {}
       THEN moves' = [moves EXCEPT ![p].pc = "createInitialGameState"]
       ELSE \E n \in QueryLatestTurn(turns) : \E color \in NextColors(turns[n].state) :
               moves' = [moves EXCEPT ![p] = Validated(moves[p], turns[n].state, color)]
    /\ UNCHANGED <<turns, serviceVars, resultVars, calls, matchVars>>

\* createInitialGameState: turn 0 with player 1 to move is saved and returned
CreateInitialGameState(p) ==
    /\ moves[p].pc = "createInitialGameState"
    /\ \E first \in generateNextColorForPlayer(TRUE) \cap ColorSamples :
       \E color \in NextColors(InitialGameState(first)) :
          /\ turns' = saveGameState(turns, InitialGameState(first))
          /\ moves' = [moves EXCEPT ![p] =
                          Validated([moves[p] EXCEPT !.created = TRUE, !.stored = @ \cup {0}],
                                    InitialGameState(first), color)]
    /\ UNCHANGED <<serviceVars, resultVars, calls, matchVars>>

\* saveGameState(newGameState)
SaveGameState(p) ==
    /\ moves[p].pc = "saveGameState"
    /\ turns' = saveGameState(turns, moves[p].new)
    /\ moves' = [moves EXCEPT ![p].pc = "broadcast",
                              ![p].stored = @ \cup {moves[p].new.TurnNumber}]
    /\ UNCHANGED <<serviceVars, resultVars, calls, matchVars>>

\* getRoomPlayers, the piecePlaced message to every player, and the 200
Broadcast(p) ==
    /\ moves[p].pc = "broadcast"
    /\ moves' = [moves EXCEPT ![p].pc = "done", ![p].status = StatusOK,
                              ![p].sent = PiecePlaced(moves[p].current, moves[p].new,
                                                      moves[p].req)]
    /\ UNCHANGED <<turns, serviceVars, resultVars, calls, matchVars>>

\* the invocation is over
CompleteMove(p) ==
    /\ moves[p].pc = "done"
    /\ moves' = [moves EXCEPT ![p] = IdleMove]
    /\ UNCHANGED <<turns, serviceVars, resultVars, calls, matchVars>>

\* the steps of an invocation after the request is received
MoveStep(p) ==
    \/ QueryGameState(p)
    \/ CreateInitialGameState(p)
    \/ SaveGameState(p)
    \/ Broadcast(p)
    \/ CompleteMove(p)

NextGame ==
    \/ \E p \in 1..Handlers, req \in MoveRequests :
          /\ NoMoveInFlight
          /\ LatestTurn(turns) < MaxTurn
          /\ ReceiveMakeMove(p, req)
    \/ \E p \in 1..Handlers : MoveStep(p)

SpecGame == InitGame /\ [][NextGame]_vars

NextGameRace ==
    \/ \E p \in 1..Handlers, req \in MoveRequests :
          /\ LatestTurn(turns) < RaceTurn
          /\ ReceiveMakeMove(p, req)
    \/ \E p \in 1..Handlers : MoveStep(p)

SpecGameRace == InitGame /\ [][NextGameRace]_vars

----------------------------------------------------------------------------
(* Matchmaking as a state machine: clients connect, send joinGame and       *)
(* disconnect; the steps of concurrent invocations of handleMatchmaking     *)
(* interleave with each other and with handleDisconnect.                    *)

InitMatch == Received(NewRequest("", <<>>)) /\ origin = NoCommand

\* a client opens a WebSocket connection; the $connect handler puts its
\* connectionId into the table websocket-connections
Connect ==
    /\ connections.last < MaxConnections
    /\ connections' = [connections EXCEPT !.last = @ + 1,
                                           !.open = @ \cup {connections.last + 1},
                                           !.table = @ \cup {connections.last + 1}]
    /\ UNCHANGED <<queue, rooms, joins, inbox, clock>>
    /\ UNCHANGED <<serviceVars, resultVars, calls, gameVars>>

\* connection k closes and handleDisconnect runs: DeleteItem by connectionId
\* on the table websocket-connections
HandleDisconnect(k) ==
    /\ k \in connections.open
    /\ connections' = [connections EXCEPT
                          !.open = @ \ {k}, !.table = @ \ {k},
                          !.left = IF \E item \in queue : item.connectionId = k
                                   THEN @ \cup {k} ELSE @]
    /\ UNCHANGED <<queue, rooms, joins, inbox, clock>>
    /\ UNCHANGED <<serviceVars, resultVars, calls, gameVars>>

\* handleMatchmaking receives joinGame with userId on connection k: 400
\* without a userId
ReceiveJoinGame(p, k, userId) ==
    /\ joins[p].pc = "idle"
    /\ k \in connections.open
    /\ joins' = [joins EXCEPT ![p] =
                    IF userId = ""
                    THEN [IdleJoin EXCEPT !.pc = "done", !.connectionId = k,
                                          !.status = StatusBadRequest]
                    ELSE [IdleJoin EXCEPT !.pc = "findWaitingPlayer", !.userId = userId,
                                          !.connectionId = k, !.gone = connections.left]]
    /\ UNCHANGED <<connections, queue, rooms, inbox, clock>>
    /\ UNCHANGED <<serviceVars, resultVars, calls, gameVars>>

\* findWaitingPlayer: the Query for the oldest item of the waiting queue
FindWaitingPlayer(p) ==
    /\ joins[p].pc = "findWaitingPlayer"
    /\ IF QueryOldest(queue) = {}
       THEN joins' = [joins EXCEPT ![p].pc = "addToWaitingQueue"]
       ELSE \E item \in QueryOldest(queue) :
               joins' = [joins EXCEPT ![p].pc = "DeleteItem", ![p].found = item]
    /\ UNCHANGED <<connections, queue, rooms, inbox, clock>>
    /\ UNCHANGED <<serviceVars, resultVars, calls, gameVars>>

\* findWaitingPlayer: the DeleteItem of the item the Query returned
RemoveFromWaitingQueue(p) ==
    /\ joins[p].pc = "DeleteItem"
    /\ queue' = DeleteItem(queue, joins[p].found.SK)
    /\ joins' = [joins EXCEPT ![p].pc = "createGameRoom"]
    /\ UNCHANGED <<connections, rooms, inbox, clock>>
    /\ UNCHANGED <<serviceVars, resultVars, calls, gameVars>>

\* the match: createGameRoom with the waiting player as player 1 and the
\* joiner as player 2, matchFound to both, and the 200
CreateGameRoom(p) ==
    /\ joins[p].pc = "createGameRoom"
    /\ rooms' = Append(rooms,
                       createGameRoom(Len(rooms) + 1, joins[p].found.userId, joins[p].userId,
                                      joins[p].found.connectionId, joins[p].connectionId,
                                      joins[p].found.SK))
    /\ inbox' = inbox \cup Delivered(MatchFound(Len(rooms) + 1, joins[p].found,
                                               joins[p].userId, joins[p].connectionId),
                                    connections.open)
    /\ joins' = [joins EXCEPT ![p].pc = "done", ![p].status = StatusOK]
    /\ UNCHANGED <<connections, queue, clock>>
    /\ UNCHANGED <<serviceVars, resultVars, calls, gameVars>>

\* nobody waits: addToWaitingQueue at the next second, the waiting message
\* to the joiner, and the 200
AddToWaitingQueue(p) ==
    /\ joins[p].pc = "addToWaitingQueue"
    /\ clock' = clock + 1
    /\ queue' = addToWaitingQueue(queue, clock + 1, joins[p].userId, joins[p].connectionId)
    /\ inbox' = inbox \cup Delivered(Waiting(joins[p].connectionId), connections.open)
    /\ joins' = [joins EXCEPT ![p].pc = "done", ![p].status = StatusOK]
    /\ UNCHANGED <<connections, rooms>>
    /\ UNCHANGED <<serviceVars, resultVars, calls, gameVars>>

\* the invocation is over
CompleteJoin(p) ==
    /\ joins[p].pc = "done"
    /\ joins' = [joins EXCEPT ![p] = IdleJoin]
    /\ UNCHANGED <<connections, queue, rooms, inbox, clock>>
    /\ UNCHANGED <<serviceVars, resultVars, calls, gameVars>>

NextMatch ==
    \/ Connect
    \/ \E k \in 1..MaxConnections : HandleDisconnect(k)
    \/ \E p \in 1..Handlers, k \in 1..MaxConnections : \E userId \in {Owner(k), ""} :
          /\ Len(rooms) < MaxRooms
          /\ clock < MaxClock
          /\ ReceiveJoinGame(p, k, userId)
    \/ \E p \in 1..Handlers : FindWaitingPlayer(p)
    \/ \E p \in 1..Handlers : RemoveFromWaitingQueue(p)
    \/ \E p \in 1..Handlers : CreateGameRoom(p)
    \/ \E p \in 1..Handlers : AddToWaitingQueue(p)
    \/ \E p \in 1..Handlers : CompleteJoin(p)

SpecMatch == InitMatch /\ [][NextMatch]_vars

----------------------------------------------------------------------------
(* The payload grammars as a state machine: one request of one payload      *)
(* string is received, then handled by the usecase or by the HTTP handler.  *)

InitGrammar == \E req \in GrammarRequests : Received(req) /\ origin = NoCommand

\* POST /v1/decode on a router whose usecase is a stub that returns the error e
HandleDecodeStub(e) ==
    /\ entry = "none"
    /\ entry' = "decodeHandler(stub)"
    /\ \E out \in {decodeHandlerOf(LAMBDA cmd : [result |-> EmptyResult, err |-> e], request)} :
          /\ command' = out.command
          /\ result' = out.result
          /\ err' = out.err
          /\ response' = out.response
    /\ UNCHANGED <<request, origin, executor, store>>
    /\ UNCHANGED <<resultVars, concurrentVars>>

NextGrammar ==
    \/ ExecuteRequest
    \/ HandleDecode
    \/ \E e \in StubErrors : HandleDecodeStub(e)

SpecGrammar == InitGrammar /\ [][NextGrammar]_vars

----------------------------------------------------------------------------

(* A domain Result and its client as a state machine: the client constructs *)
(* one Result, calls its accessors, and writes into the slices it holds.     *)

InitResult == Received(NewRequest("", <<>>)) /\ origin = NoCommand

\* a slice the client holds: where it came from, and whether it was written to
Slice(slice, from) == [slice |-> slice, from |-> from, mutated |-> FALSE]

\* the origins of the slices the client has written to
MutatedOrigins == { held[i].from : i \in { j \in 1..Len(held) : held[j].mutated } }

\* r := NewWhitespaceResult(text)
ConstructWhitespace(text) ==
    /\ object = NoResult
    /\ \E out \in {NewWhitespaceResultIn(heap, text)} :
          /\ heap' = out.heap
          /\ object' = out.result
    /\ UNCHANGED <<given, held, returned>>
    /\ UNCHANGED <<serviceVars, concurrentVars>>

\* decimals := []int{...}; r := NewDecimalResult(decimals)
ConstructDecimal(elements) ==
    /\ object = NoResult
    /\ \E out \in {NewDecimalResultIn(Append(heap, elements), Len(heap) + 1)} :
          /\ heap' = out.heap
          /\ object' = out.result
    /\ given' = elements
    /\ held' = <<Slice(Len(heap) + 1, "argument")>>
    /\ UNCHANGED returned
    /\ UNCHANGED <<serviceVars, concurrentVars>>

\* binaries := []string{...}; r := NewBinarySequenceResult(binaries)
ConstructBinary(elements) ==
    /\ object = NoResult
    /\ \E out \in {NewBinarySequenceResultIn(Append(heap, elements), Len(heap) + 1)} :
          /\ heap' = out.heap
          /\ object' = out.result
    /\ given' = elements
    /\ held' = <<Slice(Len(heap) + 1, "argument")>>
    /\ UNCHANGED returned
    /\ UNCHANGED <<serviceVars, concurrentVars>>

\* text, ok := r.Text()
CallText ==
    /\ object # NoResult
    /\ returned' = [call |-> "Text", arg |-> EmptyString, ok |-> Text(object).ok,
                    value |-> Text(object).value, slice |-> NilSlice, seen |-> MutatedOrigins]
    /\ UNCHANGED <<heap, object, given, held>>
    /\ UNCHANGED <<serviceVars, concurrentVars>>

\* decimals, ok := r.Decimals()
CallDecimals ==
    /\ object # NoResult
    /\ Len(heap) < MaxArrays
    /\ \E out \in {Decimals(heap, object)} :
          /\ heap' = out.heap
          /\ returned' = [call |-> "Decimals", arg |-> EmptyString, ok |-> out.ok,
                          value |-> Elements(out.heap, out.slice), slice |-> out.slice,
                          seen |-> MutatedOrigins]
          /\ held' = IF out.ok THEN Append(held, Slice(out.slice, "Decimals")) ELSE held
    /\ UNCHANGED <<object, given>>
    /\ UNCHANGED <<serviceVars, concurrentVars>>

\* binaries, ok := r.Binaries()
CallBinaries ==
    /\ object # NoResult
    /\ Len(heap) < MaxArrays
    /\ \E out \in {Binaries(heap, object)} :
          /\ heap' = out.heap
          /\ returned' = [call |-> "Binaries", arg |-> EmptyString, ok |-> out.ok,
                          value |-> Elements(out.heap, out.slice), slice |-> out.slice,
                          seen |-> MutatedOrigins]
          /\ held' = IF out.ok THEN Append(held, Slice(out.slice, "Binaries")) ELSE held
    /\ UNCHANGED <<object, given>>
    /\ UNCHANGED <<serviceVars, concurrentVars>>

\* joined, ok := r.DecimalString(separator)
CallDecimalString(separator) ==
    /\ object # NoResult
    /\ \E out \in {DecimalString(heap, object, separator)} :
          returned' = [call |-> "DecimalString", arg |-> separator, ok |-> out.ok,
                       value |-> out.value, slice |-> NilSlice, seen |-> MutatedOrigins]
    /\ UNCHANGED <<heap, object, given, held>>
    /\ UNCHANGED <<serviceVars, concurrentVars>>

\* joined, ok := r.BinaryString(separator)
CallBinaryString(separator) ==
    /\ object # NoResult
    /\ \E out \in {BinaryString(heap, object, separator)} :
          returned' = [call |-> "BinaryString", arg |-> separator, ok |-> out.ok,
                       value |-> out.value, slice |-> NilSlice, seen |-> MutatedOrigins]
    /\ UNCHANGED <<heap, object, given, held>>
    /\ UNCHANGED <<serviceVars, concurrentVars>>

\* s[k] = v, for a slice s the client holds
Mutate(i, k) ==
    /\ i \in 1..Len(held)
    /\ k \in 1..Len(heap[held[i].slice])
    /\ heap[held[i].slice][k] # Overwrite(object.kind)
    /\ heap' = [heap EXCEPT ![held[i].slice][k] = Overwrite(object.kind)]
    /\ held' = [held EXCEPT ![i].mutated = TRUE]
    /\ UNCHANGED <<object, given, returned>>
    /\ UNCHANGED <<serviceVars, concurrentVars>>

NextResult ==
    \/ \E text \in Texts : ConstructWhitespace(text)
    \/ \E elements \in DecimalArrays : ConstructDecimal(elements)
    \/ \E elements \in BinaryArrays : ConstructBinary(elements)
    \/ CallText
    \/ CallDecimals
    \/ CallBinaries
    \/ \E separator \in Separators : CallDecimalString(separator)
    \/ \E separator \in Separators : CallBinaryString(separator)
    \/ \E i \in 1..Len(held) : \E k \in 1..Len(heap[held[i].slice]) : Mutate(i, k)

SpecResult == InitResult /\ [][NextResult]_vars

----------------------------------------------------------------------------

(* Properties.  The expected values are built with the builders of the      *)
(* Inputs section, not with the operators that model the service.           *)

FourNames ==
    { "WhitespaceToDecimal", "WhitespaceToBinary", "DecimalToWhitespace", "BinariesToWhitespace" }

\* a 16-character string over '0' and '1'
IsBits16(b) == Len(b) = 16 /\ \A i \in 1..16 : b[i] \in {"0", "1"}

\* b regrouped as 4 bits, space, 4 bits, space, 8 bits
Regrouped(b) == SubSeq(b, 1, 4) \o <<SP>> \o SubSeq(b, 5, 8) \o <<SP>> \o SubSeq(b, 9, 16)

\* the canonical decimal triples of the round trips
CanonicalDecimals == { DecimalsOf(t) : t \in RoundTripTriples }

\* the triple a valid sentence of the samples was built from
TripleOfSentence(s) ==
    CHOOSE t \in SampleTriples : \E term \in Terminators : s = SentenceOf(t, term)

\* every string of the payload is a valid sentence of the samples
AllValidSentences(payload) == \A i \in 1..Len(payload) : payload[i] \in ValidSentences

\* the sampled sentences of the right shape with a character that is neither a
\* space nor a tab inside a field
BadFieldSentences ==
    { Prefix \o <<SP, "a", TAB, SP, LF>> \o Prefix \o FieldOf(2, 4) \o <<LF>>
             \o Prefix \o FieldOf(3, 8) \o <<LF>>,
      Prefix \o FieldOf(1, 4) \o <<LF>> \o Prefix \o FieldOf(2, 4) \o <<LF>>
             \o Prefix \o <<TAB, TAB, "0", "1", SP, SP, SP, SP, LF>> }

\* The usecase was called directly with a command of type ct
Executed(ct) == entry = "Execute" /\ command.CommandType = ct

C5_SentenceCeiling ==
    ( /\ entry = "Execute"
      /\ command.CommandType \in DecodeTypes
      /\ AllValidSentences(command.Payload) )
    => /\ Len(command.Payload) = SentenceCeiling => err = NoError
       /\ Len(command.Payload) = SentenceCeiling + 1 => err.kind = "InvalidPayload"

\* the error kind that POST /v1/decode reported in its response
Reported == response.details.kind

\* C6: validation order of POST /v1/decode, first failure wins.  A blank
\* command type is reported as ValidationFailed; otherwise an empty payload is
\* reported as ValidationFailed; otherwise an unknown command type is reported
\* as InvalidCommandType; the payload grammar is examined after these.
C6_ValidationOrder ==
    entry = "decodeHandler"
    => IF request.CommandType \in {"", "  "} THEN Reported = "ValidationFailed"
       ELSE IF Len(request.Payload) = 0 THEN Reported = "ValidationFailed"
       ELSE IF request.CommandType \notin FourNames THEN Reported = "InvalidCommandType"
       ELSE Reported \in {"nil", "InvalidPayload"}

\* the statement of C7 as it was made: Execute with a command type that is
\* none of the four names returns InvalidCommandType for every payload, the
\* empty payload included
C7_EveryPayload ==
    ( entry = "Execute" /\ command.CommandType = "Unknown" ) => err.kind = "InvalidCommandType"

\* C7: Execute with a command type that is not blank and none of the four
\* supported names returns InvalidCommandType and the empty result for every
\* payload that is not empty, a payload of invalid strings included; for the
\* empty payload it returns ValidationFailed.
C7_UnknownCommandType ==
    ( /\ entry = "Execute"
      /\ command.CommandType \notin FourNames
      /\ command.CommandType \notin {"", "  "} )
    => /\ result = EmptyResult
       /\ err.kind = IF Len(command.Payload) = 0 THEN "ValidationFailed" ELSE "InvalidCommandType"

\* "Unknown" with a payload of two strings has been rejected
C7_Witness ==
    /\ Executed("Unknown")
    /\ command.Payload = << <<"d", "u", "m", "m", "y">>, EmptyString >>
    /\ err.kind = "InvalidCommandType"

\* C8: DecimalToWhitespace on the payload <<"46802">> succeeds and returns the
\* whitespace sentence of the bits 1011 0110 11010010 together with its
\* percent-encoded form.
C8_SingleDecimal ==
    ( /\ Executed(CommandTypeDecimalToWhitespace)
      /\ command.Payload = << <<"4", "6", "8", "0", "2">> >> )
    => /\ err = NoError
       /\ result.ResultWhitespace = << SentenceOf(<<11, 6, 210>>, <<LF>>) >>
       /\ result.ResultWhitespaceEncoded = << PercentOf(SentenceOf(<<11, 6, 210>>, <<LF>>)) >>

\* the error of one payload string under a supported command type
UnitError(ct, unit) ==
    CASE ct \in DecodeTypes -> parseWhitespaceSentence(unit).err
      [] ct = CommandTypeDecimalToWhitespace -> decimalUnitToWhitespace(unit).err
      [] ct = CommandTypeBinariesToWhitespace -> binaryUnitToWhitespace(unit).err

\* the sampled strings that are invalid under a supported command type
InvalidUnits(ct) ==
    CASE ct \in DecodeTypes -> InvalidSentences
      [] ct = CommandTypeDecimalToWhitespace ->
            { <<"4", "6", "8", "0", "2">>, <<"1", SP, "2">>, <<"a", SP, "b", SP, "c">>,
              <<"-", "1", SP, "0", SP, "0">>, <<"1", "6", SP, "0", SP, "0">>,
              <<"0", SP, "0", SP, "2", "5", "6">>, EmptyString }
      [] ct = CommandTypeBinariesToWhitespace ->
            { <<"1", "0", "1", "0">>, BitsOf(0, 15) \o <<"2">>, EmptyString }

\* C9: all or nothing.  If a payload string of a request is invalid, Execute
\* returns an error together with the empty result, and the error is the one
\* of the failing unit with the lowest index.
C9_AllOrNothing ==
    ( entry = "Execute" /\ command.CommandType \in FourNames )
    => \A i \in 1..Len(command.Payload) :
          /\ command.Payload[i] \in InvalidUnits(command.CommandType)
             => err # NoError /\ result = EmptyResult
          /\ ( /\ UnitError(command.CommandType, command.Payload[i]) # NoError
               /\ \A j \in 1..(i - 1) : UnitError(command.CommandType, command.Payload[j]) = NoError )
             => /\ err = UnitError(command.CommandType, command.Payload[i])
                /\ result = EmptyResult

\* two invalid sentences with different errors: the error of the first one is
\* returned, and nothing else
C9_Witness ==
    /\ Executed(CommandTypeWhitespaceToBinary)
    /\ command.Payload = << <<"a", "b", "c">>, EmptyString >>
    /\ err = ErrInvalidPayload("line must start with three spaces", <<>>)
    /\ result = EmptyResult

\* C10: dispatch.  The executor hands DecimalToWhitespace and
\* BinariesToWhitespace to the encoder and WhitespaceToDecimal and
\* WhitespaceToBinary to the decoder, so that a request with one of the four
\* supported command types never ends in TypeMismatch; TypeMismatch arises
\* only when a decoder or an encoder is handed a command type of the other
\* direction.
C10_Dispatch ==
    /\ ( /\ entry = "ExecuteCommand"
         /\ request.CommandType \in FourNames
         /\ request.Payload # EmptyString )
       => /\ executor.err.kind # "TypeMismatch"
          /\ executor.component =
                IF request.CommandType \in {"DecimalToWhitespace", "BinariesToWhitespace"}
                THEN "encoder" ELSE "decoder"
    /\ ( entry = "Decoder" /\ executor.err.kind = "TypeMismatch" )
       => request.CommandType \in {"DecimalToWhitespace", "BinariesToWhitespace"}
    /\ ( entry = "Encoder" /\ executor.err.kind = "TypeMismatch" )
       => request.CommandType \in {"WhitespaceToDecimal", "WhitespaceToBinary"}

\* the upper ends of the ranges of the three numbers of a decimal string
FieldMax == <<15, 15, 255>>

\* exactly three tokens, each an integer within the range of its field
WellFormedDecimal(tokens) ==
    /\ Len(tokens) = 3
    /\ \A i \in 1..3 : tokens[i].int /\ tokens[i].value >= 0 /\ tokens[i].value <= FieldMax[i]

TripleOfBits(core) == CHOOSE t \in SampleTriples : Bits16Of(t) = core

\* the statement of C12 as it was made: a payload string is accepted if and
\* only if what is left of it after the removal of the white space it contains
\* is 16 characters that are all '0' or '1'; any other string fails with
\* InvalidPayload
C12_WhitespaceRemoved ==
    Executed(CommandTypeBinariesToWhitespace)
    => \A c \in BinaryCases :
          command.Payload = <<c.unit>>
          => IF IsBits16(c.core) THEN err = NoError ELSE err.kind = "InvalidPayload"

\* C12: validation of BinariesToWhitespace input.  A payload string is accepted
\* if and only if what is left of it after the removal of the white space at
\* its two ends and of the space characters inside it is 16 characters that are
\* all '0' or '1'; a blank string, a string of another length, a string with a
\* character that is no bit, and a string with a tab or a line break between
\* its bits fail with InvalidPayload and the empty result.
C12_BinaryValidation ==
    Executed(CommandTypeBinariesToWhitespace)
    => \A c \in BinaryCases :
          command.Payload = <<c.unit>>
          => IF IsBits16(c.core) /\ c.sep \in {EmptyString, <<SP>>, <<SP, SP>>}
             THEN /\ err = NoError
                  /\ result.ResultWhitespace = << SentenceOf(TripleOfBits(c.core), <<LF>>) >>
             ELSE /\ err.kind = "InvalidPayload"
                  /\ result = EmptyResult

\* 16 bits grouped by tabs have been rejected
C12_Witness ==
    /\ Executed(CommandTypeBinariesToWhitespace)
    /\ command.Payload = << BitsOf(11, 4) \o <<TAB>> \o BitsOf(6, 4) \o <<TAB>> \o BitsOf(210, 8) >>
    /\ err.kind = "InvalidPayload"
    /\ result = EmptyResult

\* the widths of the three fields of a sentence
FieldWidths == <<4, 4, 8>>

\* the first field of the wrong width, 0 if every field has its width
FirstWrongField(widths) ==
    IF widths[1] # 4 THEN 1 ELSE IF widths[2] # 4 THEN 2 ELSE IF widths[3] # 8 THEN 3 ELSE 0

\* C13: field width.  A sentence of three lines whose first or second field is
\* not exactly 4 characters, or whose third field is not exactly 8, fails with
\* the InvalidPayload error of the width, which names the first such line and
\* the width it must have; this is the error reported even when a field holds
\* an unsupported character.  With the three widths right, an unsupported
\* character is reported by another InvalidPayload error.
C13_FieldWidth ==
    ( entry = "Execute" /\ command.CommandType \in DecodeTypes )
    => \A c \in WidthCases :
          command.Payload = <<c.unit>>
          => IF FirstWrongField(c.widths) # 0
             THEN /\ err = ErrInvalidPayload("line must contain characters",
                              DecimalOf(FirstWrongField(c.widths)) \o <<SP>>
                              \o DecimalOf(FieldWidths[FirstWrongField(c.widths)]))
                  /\ result = EmptyResult
             ELSE IF c.bad # 0
             THEN err = ErrInvalidPayload("unsupported rune", <<"x">>) /\ result = EmptyResult
             ELSE err = NoError

\* a sentence whose first field has 5 characters, the first of them no space
\* and no tab, has been rejected for the width of line 1
C13_Witness ==
    /\ Executed(CommandTypeWhitespaceToDecimal)
    /\ command.Payload = << Prefix \o <<"x", TAB, SP, TAB, SP, LF>>
                            \o Prefix \o <<SP, TAB, SP, TAB, LF>>
                            \o Prefix \o <<SP, TAB, SP, TAB, SP, TAB, SP, TAB, LF>> >>
    /\ err = ErrInvalidPayload("line must contain characters", <<"1", SP, "4">>)

\* s holds a percent sign
HasPercent(s) == \E i \in 1..Len(s) : s[i] = "%"

PercentDecoded(e) ==
    [k \in 1..(Len(e) \div 3) |->
        CASE SubSeq(e, 3 * k - 2, 3 * k) = <<"%", "2", "0">> -> SP
          [] SubSeq(e, 3 * k - 2, 3 * k) = <<"%", "0", "9">> -> TAB
          [] SubSeq(e, 3 * k - 2, 3 * k) = <<"%", "0", "A">> -> LF
          [] OTHER -> "?"]

\* the encoded sequence is the raw sequence, element by element, with every
\* space, tab and line feed written as %20, %09 and %0A
EncodedElementwise(raw, encoded) ==
    /\ Len(encoded) = Len(raw)
    /\ \A i \in 1..Len(raw) :
          /\ encoded[i] = PercentOf(raw[i])
          /\ Len(encoded[i]) = 3 * Len(raw[i])
          /\ \A k \in 1..Len(encoded[i]) : encoded[i][k] \notin {SP, TAB, LF, CR}
          /\ PercentDecoded(encoded[i]) = raw[i]

\* C15: percent-encoded output.  For every successful encode request the
\* percent-encoded sequence has the length of the raw whitespace sequence,
\* element i is element i of the raw sequence with every space, tab and line
\* feed written as %20, %09 and %0A, so that it holds no raw white space, and
\* decoding element i gives the raw text back; the response of POST /v1/decode
\* carries the two sequences unchanged.
C15_PercentEncodedOutput ==
    /\ ( /\ entry \in {"Execute", "decodeHandler"}
         /\ command.called
         /\ command.CommandType \in EncodeTypes
         /\ err = NoError )
       => /\ Len(result.ResultWhitespace) = Len(command.Payload)
          /\ EncodedElementwise(result.ResultWhitespace, result.ResultWhitespaceEncoded)
    /\ ( entry = "decodeHandler" /\ response.status = StatusOK )
       => /\ response.body.ResultWhitespace = result.ResultWhitespace
          /\ response.body.ResultWhitespaceEncoded = result.ResultWhitespaceEncoded

\* two binary strings have been encoded, and their percent-encoded forms are
\* those of the README
C15_Witness ==
    /\ Executed(CommandTypeBinariesToWhitespace)
    /\ command.Payload = << GroupedBitsOf(<<11, 6, 210>>), Bits16Of(<<0, 0, 0>>) >>
    /\ err = NoError
    /\ result.ResultWhitespaceEncoded =
          << PercentOf(SentenceOf(<<11, 6, 210>>, <<LF>>)),
             PercentOf(SentenceOf(<<0, 0, 0>>, <<LF>>)) >>

\* C16: leniency on line terminators.  A valid sentence whose line feeds are
\* replaced by carriage returns or by carriage return and line feed, line by
\* line, decodes under WhitespaceToBinary and under WhitespaceToDecimal to the
\* output of the sentence written with line feeds: the bit groups, and the
\* decimals, of its triple.
C16_LineTerminators ==
    ( entry = "Execute" /\ command.CommandType \in DecodeTypes )
    => \A c \in TerminatorCases :
          command.Payload = <<c.unit>>
          => /\ err = NoError
             /\ command.CommandType = CommandTypeWhitespaceToBinary
                => result.ResultBinaries = << GroupedBitsOf(c.triple) >>
             /\ command.CommandType = CommandTypeWhitespaceToDecimal
                => result.ResultDecimals = << DecimalsOf(c.triple) >>

\* the sentence of 5 10 129 with its lines ended by CR, CRLF and CR has been
\* decoded
C16_Witness ==
    /\ Executed(CommandTypeWhitespaceToDecimal)
    /\ command.Payload = << Prefix \o FieldOf(5, 4) \o <<CR>> \o Prefix \o FieldOf(10, 4)
                            \o <<CR, LF>> \o Prefix \o FieldOf(129, 8) \o <<CR>> >>
    /\ err = NoError
    /\ result.ResultDecimals = << <<"5", SP, "1", "0", SP, "1", "2", "9">> >>

\* the accessors of a Result that return ok on the current heap
OkAccessors ==
    { a \in {"Text", "Decimals", "Binaries"} :
        CASE a = "Text"     -> Text(object).ok
          [] a = "Decimals" -> Decimals(heap, object).ok
          [] a = "Binaries" -> Binaries(heap, object).ok }

\* the accessor that matches a kind
AccessorOf(kind) ==
    CASE kind = "Whitespace"      -> "Text"
      [] kind = "DecimalSequence" -> "Decimals"
      [] kind = "BinarySequence"  -> "Binaries"

\* C17: kind exclusivity.  For every Result built by NewWhitespaceResult,
\* NewDecimalResult or NewBinarySequenceResult, exactly one of Text(),
\* Decimals() and Binaries() returns ok, the one that matches Kind(); the
\* other two return not ok together with the empty string or the nil slice.
C17_KindExclusivity ==
    object # NoResult
    => /\ Kind(object) \in {"Whitespace", "DecimalSequence", "BinarySequence"}
       /\ OkAccessors = { AccessorOf(Kind(object)) }
       /\ ~Text(object).ok => Text(object).value = EmptyString
       /\ ~Decimals(heap, object).ok => Decimals(heap, object).slice = NilSlice
       /\ ~Binaries(heap, object).ok => Binaries(heap, object).slice = NilSlice
       /\ returned.call \in {"Text", "Decimals", "Binaries"}
          => /\ returned.ok <=> returned.call = AccessorOf(Kind(object))
             /\ ~returned.ok => returned.value = <<>> /\ returned.slice = NilSlice

\* Text() of a Result built from three decimals has returned not ok
C17_Witness ==
    /\ Kind(object) = "DecimalSequence"
    /\ given = <<1, 2, 3>>
    /\ returned.call = "Text"
    /\ ~returned.ok
    /\ returned.value = EmptyString

\* elements joined by a separator, each written by Write
JoinedBy(elements, separator, Write(_)) ==
    [k \in 1..Len(elements) |-> IF k = 1 THEN Write(elements[k])
                                 ELSE separator \o Write(elements[k])]

RECURSIVE Flattened(_)
\* the strings of a sequence, one after the other
Flattened(parts) == IF Len(parts) = 0 THEN <<>> ELSE parts[1] \o Flattened(Tail(parts))

\* C18: defensive copy.  After a Result is constructed from a slice, whatever
\* the client writes into that slice and into the slices that Decimals() and
\* Binaries() returned, every later call of Decimals(), Binaries(),
\* DecimalString() and BinaryString() returns the elements that were passed to
\* the constructor.
C18_DefensiveCopy ==
    /\ Kind(object) = "DecimalSequence"
       => /\ Elements(Decimals(heap, object).heap, Decimals(heap, object).slice) = given
          /\ \A separator \in Separators :
                DecimalString(heap, object, separator) =
                   [value |-> Flattened(JoinedBy(given, separator, DecimalOf)), ok |-> TRUE]
          /\ returned.call = "Decimals" => returned.value = given
          /\ returned.call = "DecimalString"
             => returned.value = Flattened(JoinedBy(given, returned.arg, DecimalOf))
    /\ Kind(object) = "BinarySequence"
       => /\ Elements(Binaries(heap, object).heap, Binaries(heap, object).slice) = given
          /\ \A separator \in Separators :
                BinaryString(heap, object, separator) =
                   [value |-> Flattened(JoinedBy(given, separator, LAMBDA b : b)), ok |-> TRUE]
          /\ returned.call = "Binaries" => returned.value = given
          /\ returned.call = "BinaryString"
             => returned.value = Flattened(JoinedBy(given, returned.arg, LAMBDA b : b))

\* the client has written into the slice it passed to NewDecimalResult and
\* into a slice Decimals() returned, and a later Decimals() has returned the
\* three decimals of the construction
C18_Witness ==
    /\ Kind(object) = "DecimalSequence"
    /\ given = <<1, 2, 3>>
    /\ returned.call = "Decimals"
    /\ returned.seen = {"argument", "Decimals"}
    /\ returned.value = <<1, 2, 3>>
    /\ \E i \in 1..Len(held) : held[i].from = "argument" /\ heap[held[i].slice][1] = 99

\* C19: response shaping.  In a successful response the convenience strings
\* decimal_string and binary_string are the elements of result_decimals and of
\* result_binaries, over the whole payload, joined by single spaces, and each
\* is present exactly when its sequence is not empty; the two sequences have
\* one element per payload string.
C19_ResponseShaping ==
    ( entry = "decodeHandler" /\ response.status = StatusOK )
    => /\ response.body.DecimalString.present <=> Len(response.body.ResultDecimals) > 0
       /\ response.body.BinaryString.present <=> Len(response.body.ResultBinaries) > 0
       /\ response.body.DecimalString.value =
             Flattened(JoinedBy(response.body.ResultDecimals, <<SP>>, LAMBDA s : s))
       /\ response.body.BinaryString.value =
             Flattened(JoinedBy(response.body.ResultBinaries, <<SP>>, LAMBDA s : s))
       /\ request.CommandType = CommandTypeWhitespaceToDecimal
          => /\ Len(response.body.ResultDecimals) = Len(request.Payload)
             /\ response.body.ResultBinaries = <<>>
       /\ request.CommandType = CommandTypeWhitespaceToBinary
          => /\ Len(response.body.ResultBinaries) = Len(request.Payload)
             /\ response.body.ResultDecimals = <<>>
       /\ request.CommandType \in EncodeTypes
          => response.body.ResultDecimals = <<>> /\ response.body.ResultBinaries = <<>>

\* two sentences have been decoded, and decimal_string joins the decimals of
\* both
C19_Witness ==
    /\ entry = "decodeHandler"
    /\ request = NewRequest(CommandTypeWhitespaceToDecimal,
                            << SentenceOf(<<11, 6, 210>>, <<LF>>), SentenceOf(<<0, 0, 0>>, <<LF>>) >>)
    /\ response.status = StatusOK
    /\ response.body.DecimalString =
          [present |-> TRUE,
           value |-> <<"1", "1", SP, "6", SP, "2", "1", "0", SP, "0", SP, "0", SP, "0">>]
    /\ ~response.body.BinaryString.present

\* the sentinels that handleUsecaseError answers with status 400
ClientErrors == { "ValidationFailed", "InvalidPayload", "InvalidCommandType", "TypeMismatch" }

\* C20: HTTP status mapping.  An error returned by the usecase that is or
\* wraps ValidationFailed, InvalidPayload, InvalidCommandType or TypeMismatch
\* is answered with status 400, every other error with status 500; in both
\* cases the response carries an error message and the details of the error,
\* and no field of a result.
C20_StatusMapping ==
    ( entry \in {"decodeHandler", "decodeHandler(stub)"} /\ command.called /\ err # NoError )
    => /\ response.status = IF err.kind \in ClientErrors THEN 400 ELSE 500
       /\ response.error # ""
       /\ response.details = err
       /\ response.body = NoBody

\* a stub of the usecase has returned an error that is none of the four
\* sentinels, and the answer is 500
C20_Witness ==
    /\ entry = "decodeHandler(stub)"
    /\ err = [kind |-> "other", msg |-> "boom", detail |-> <<>>]
    /\ response.status = 500
    /\ response.body = NoBody

SlicesOf(call) == {call.primary, call.encoded} \ {NilSlice}

\* C22: request isolation.  Under every interleaving of concurrent calls of
\* WhitespaceUsecase.Execute, a call returns the result and the error it
\* returns when it runs alone on the same command, and no array is reached
\* from two calls.
C22_RequestIsolation ==
    /\ \A c \in 1..Goroutines :
          calls[c].pc = "returned"
          => /\ ReturnedResult(heap, calls[c]) = Execute(calls[c].command).result
             /\ calls[c].err = Execute(calls[c].command).err
    /\ \A c, d \in 1..Goroutines :
          c # d => SlicesOf(calls[c]) \cap SlicesOf(calls[d]) = {}

\* two calls that convert two strings each have returned without an error;
\* goroutine 2 made its slices before goroutine 1 made its own
C22_Witness ==
    /\ calls[1].pc = "returned" /\ calls[2].pc = "returned"
    /\ calls[1].command.CommandType = CommandTypeBinariesToWhitespace
    /\ calls[2].command.CommandType = CommandTypeDecimalToWhitespace
    /\ Len(calls[1].command.Payload) = 2 /\ Len(calls[2].command.Payload) = 2
    /\ calls[1].err = NoError /\ calls[2].err = NoError
    /\ calls[1].primary > calls[2].primary
    /\ calls[1].encoded > calls[2].encoded

\* the invocations of handleMakeMove that have passed the checks
AcceptedMoves == { p \in 1..Handlers : moves[p].pc \in {"saveGameState", "broadcast"}
                                        \/ (moves[p].pc = "done" /\ moves[p].status = 200) }

\* the invocations of handleMakeMove that have answered with an error
RejectedMoves == { p \in 1..Handlers : moves[p].pc = "done" /\ moves[p].status # 200 }

\* the other player of the room
Opponent(u) == IF u = "alice" THEN "bob" ELSE "alice"

\* the stored states are turn 0 with player 1 to move and, from there on, one
\* state for every turn number, the players alternating
TurnsAlternate ==
    \A n \in DOMAIN turns :
       /\ turns[n].state.TurnNumber = n
       /\ n = 0 => turns[n].state.CurrentPlayer = "alice"
       /\ n > 0 => /\ n - 1 \in DOMAIN turns
                   /\ turns[n].state.CurrentPlayer = Opponent(turns[n - 1].state.CurrentPlayer)

\* an accepted request comes from the player whose turn the stored state says
\* it is, and the state it stores is the next turn of the latest stored one
AcceptedInTurn ==
    \A p \in AcceptedMoves :
       /\ moves[p].req.UserId = moves[p].current.CurrentPlayer
       /\ moves[p].new.TurnNumber = moves[p].current.TurnNumber + 1
       /\ moves[p].new.CurrentPlayer = Opponent(moves[p].req.UserId)
       /\ IF moves[p].pc = "saveGameState"
          THEN /\ LatestTurn(turns) = moves[p].current.TurnNumber
               /\ turns[LatestTurn(turns)].state = moves[p].current
          ELSE /\ LatestTurn(turns) = moves[p].new.TurnNumber
               /\ turns[LatestTurn(turns)].state = moves[p].new
               /\ moves[p].new.TurnNumber \in moves[p].stored

\* C24 as stated: the turn protocol, with a rejected request that stores no
\* state and broadcasts nothing.
C24_RejectedStoresNothing ==
    /\ TurnsAlternate
    /\ AcceptedInTurn
    /\ \A p \in RejectedMoves : moves[p].stored = {} /\ moves[p].sent = NoMessage

\* C24: the turn protocol.  Over sequentially handled makeMove requests a
\* request is accepted only if its userId is the stored CurrentPlayer; an
\* accepted move stores the next turn with the other player to move, from
\* player 1 at turn 0; a rejected request stores no turn and broadcasts
\* nothing: at most it stores the initial state, turn 0, of a room that had
\* no state yet.
C24_TurnProtocol ==
    /\ TurnsAlternate
    /\ AcceptedInTurn
    /\ \A p \in RejectedMoves :
          /\ moves[p].sent = NoMessage
          /\ moves[p].stored \subseteq {0}
          /\ moves[p].stored = {0}
             => /\ moves[p].created
                /\ DOMAIN turns = {0}
                /\ turns[0] = [state |-> InitialGameState(7), puts |-> 1]

\* bob's move in turn 1 has been accepted and broadcast: turn 2 is stored,
\* alice is to move
C24_Witness ==
    \E p \in 1..Handlers :
       /\ moves[p].pc = "done" /\ moves[p].status = 200
       /\ moves[p].req.UserId = "bob"
       /\ moves[p].sent.Type = "piecePlaced" /\ moves[p].sent.NextPlayer = "alice"
       /\ LatestTurn(turns) = 2
       /\ turns[2].state.CurrentPlayer = "alice"

\* C25 as stated: of concurrent makeMove requests at most one is accepted for
\* a turn: no two accepted moves store a state with the same TurnNumber, and
\* no TURN# item is put a second time.
C25_ConcurrentMoves ==
    /\ \A p, q \in AcceptedMoves :
          p # q => moves[p].new.TurnNumber # moves[q].new.TurnNumber
    /\ \A n \in DOMAIN turns : turns[n].puts = 1

\* C26 as stated: once a state with GamePhase FINISHED is stored, no makeMove
\* is accepted and the stored turns never change again.
C26_GameEndFinal ==
    [][ (\E n \in DOMAIN turns : turns[n].state.GamePhase = "FINISHED")
        => /\ turns' = turns
           /\ \A p \in 1..Handlers : moves'[p].pc \notin {"saveGameState", "broadcast"} ]_vars

\* C27 as stated: the state stored, and the piecePlaced message broadcast, by
\* the move that brings the TurnNumber to 64 has GamePhase FINISHED; every
\* state with a TurnNumber below 64 has GamePhase PLAYING.
C27_FullBoard ==
    /\ \A n \in DOMAIN turns :
          /\ n = 64 => turns[n].state.GamePhase = "FINISHED"
          /\ n < 64 => turns[n].state.GamePhase = "PLAYING"
    /\ \A p \in 1..Handlers :
          ( moves[p].sent # NoMessage /\ moves[p].new.TurnNumber = 64 )
          => moves[p].sent.GamePhase = "FINISHED"

\* C28 as stated: under every interleaving of concurrent handleMatchmaking
\* invocations an item of the waiting queue is consumed by at most one
\* joiner: no two invocations hold the same item, and no two rooms are made
\* from it.
C28_OneJoinerPerEntry ==
    /\ \A p, q \in 1..Handlers :
          ( p # q /\ joins[p].found # NoItem /\ joins[q].found # NoItem )
          => joins[p].found.SK # joins[q].found.SK
    /\ \A i, j \in 1..Len(rooms) : i # j => rooms[i].waitingSK # rooms[j].waitingSK

\* C29 as stated: every room handleMatchmaking creates has two different
\* users as player1Id and player2Id.
C29_DistinctOpponents ==
    \A i \in 1..Len(rooms) : rooms[i].player1Id # rooms[i].player2Id

\* C30 as stated: an invocation of handleMatchmaking that begins after
\* handleDisconnect has run for the connection of a waiting player finds no
\* waiting player of that connection.
C30_DisconnectedNotPaired ==
    \A p \in 1..Handlers :
       joins[p].found # NoItem => joins[p].found.connectionId \notin joins[p].gone

====
